---- MODULE Spec2Model ----
(***************************************************************************)
(* A model of wimlib's capture-and-apply core:                             *)
(*   - the apply engine of src/src/ntfs-apply.c (two passes over a dentry  *)
(*     tree, hard-link resolution, DOS-name-first ordering), as a state    *)
(*     machine with an explicit call stack, one step per adapter call;     *)
(*   - the capture driver of src/src/add_image.c (build_dentry_tree,       *)
(*     attach_branch, do_overlay, wimlib_add_image_multisource) over a     *)
(*     lookup table with reference counts.                                 *)
(***************************************************************************)
EXTENDS Integers, Sequences, FiniteSets, TLC

(* ------------------------------ bounds --------------------------------- *)

\* Size of an image handed to apply: one unit per non-root dentry, per
\* reparse point, per named stream, per non-default stream, per security
\* descriptor set, and per adapter failure the environment may inject.
MaxSize == 4
\* Adapter failures the environment may inject in one apply.
MaxFaults == 1
\* Depth of the C call stack (frames of do_wim_apply_dentry_ntfs) before the
\* process dies of stack exhaustion.
MaxStack == 3
\* Alternate data streams per inode.
MaxAds == 1
\* Capture sources handed to the library over all its calls.
MaxSources == 2
\* Failures the environment may inject into the captures.
MaxCaptureFaults == 1

(* --------------------------- error kinds ------------------------------- *)

OK == "OK"
ERR_NTFS_3G == "NTFS_3G"
ERR_INVALID_DENTRY == "INVALID_DENTRY"
ERR_INVALID_RESOURCE_HASH == "INVALID_RESOURCE_HASH"
ERR_WRITE == "WRITE"
ERR_READ == "READ"
ERR_NOMEM == "NOMEM"
ERR_INVALID_OVERLAY == "INVALID_OVERLAY"
ERR_INVALID_CAPTURE_CONFIG == "INVALID_CAPTURE_CONFIG"
ERR_STAT == "STAT"
ERR_NOTDIR == "NOTDIR"
ERR_SPECIAL_FILE == "SPECIAL_FILE"
ERR_OPEN == "OPEN"
ERR_READLINK == "READLINK"
\* The -1 of a failed lstat(), returned as it is (add_image.c:608-612).
ERR_MINUS_ONE == "-1"

\* A NULL char* (extracted_file), and an absent name on the target volume.
NoPath == -1

VARIABLES
  img,             \* the image being applied: the dentry tree and its inodes
  phase,           \* position in do_wim_apply_image_ntfs
  todo,            \* dentries the current tree walk has still to visit
  stack,           \* frames of do_wim_apply_dentry_ntfs / wim_apply_root_dentry_ntfs
  extracted_file,  \* dentry -> path recorded in dentry->extracted_file, or NoPath
  vol,             \* the target volume: dentry path -> target inode, or NoPath
  log,             \* every adapter call issued so far, in order
  ret,             \* the result do_wim_apply_image_ntfs will return
  faults           \* adapter failures the environment may still inject

applyVars == <<img, phase, todo, stack, extracted_file, vol, log, ret, faults>>

VARIABLES
  dentries,        \* every wim_dentry allocated so far, by address
  lookup_table,    \* w->lookup_table: its entries (digest, refcnt, size)
  image_metadata,  \* w->image_metadata, one record per image
  call,            \* the wimlib_add_image_multisource call in progress
  frames,          \* the build_dentry_tree calls in progress, innermost last
  cfaults,         \* failures the environment may still inject into capture
  work,            \* capture sources that may still be handed to the library
  win32,           \* the library was built for Windows (__WIN32__, __CYGWIN__)
  progress,        \* progress_func and WIMLIB_ADD_IMAGE_FLAG_VERBOSE, as passed
  events           \* what the last call called progress_func with, in order

captureVars ==
  <<dentries, lookup_table, image_metadata, call, frames, cfaults, work,
    win32, progress, events>>

VARIABLES
  config_in,       \* the capture configuration text handed to the library
  capture_config,  \* struct capture_config: four pattern lists and the prefix
  config_pc,       \* how far the capture configuration has been taken
  config_ret,      \* what init_capture_config returned
  query            \* the last exclude_path call and its result

configVars == <<config_in, capture_config, config_pc, config_ret, query>>

VARIABLES
  reparse_point    \* one reparse point on its way into an image and out of it

reparseVars == <<reparse_point>>

vars == <<applyVars, captureVars, configVars, reparseVars>>

\* The digests of the contents found on the source file system.
Hashes == 1..4

\* No wimlib_add_image_multisource call in progress and none made yet.  Once
\* a call has returned, the record keeps what it was given (sources, config),
\* what it returned (ret), and what the WIM was when it began (before).
NoCall ==
  [pc |-> "idle", sources |-> <<>>, i |-> 0, root_dentry |-> 0, branch |-> 0,
   config |-> {}, ret |-> OK,
   before |-> [lookup_table |-> <<>>, image_count |-> 0, cfaults |-> 0]]

\* A WIMStruct without images: what wimlib_create_new_wim hands out.
EmptyWim ==
  /\ dentries = <<>>
  /\ lookup_table = <<>>
  /\ image_metadata = <<>>
  /\ call = NoCall
  /\ frames = <<>>

(* ------------------------- the dentry tree ----------------------------- *)

Dentries(im) == 0..im.n

RECURSIVE SortedSeq(_)
\* The elements of a finite set of integers in increasing order.
SortedSeq(S) ==
  IF S = {} THEN <<>>
  ELSE LET m == CHOOSE x \in S : \A y \in S : x <= y
       IN <<m>> \o SortedSeq(S \ {m})

\* dentry->children, in the order the tree enumerates them.
Children(im, d) == SortedSeq({c \in 1..im.n : im.parent[c] = d})

dentry_is_root(d) == d = 0

HasDirectoryAttr(im, d) == "DIRECTORY" \in im.attributes[d]
HasReparseAttr(im, d) == "REPARSE_POINT" \in im.attributes[d]

\* dentry_is_directory(): a directory that is not a reparse point.
dentry_is_directory(im, d) == HasDirectoryAttr(im, d) /\ ~HasReparseAttr(im, d)

\* dentry_is_regular_file(): neither a directory nor a reparse point.
dentry_is_regular_file(im, d) == ~HasDirectoryAttr(im, d) /\ ~HasReparseAttr(im, d)

\* The other members of dentry->link_group_list, in list order starting
\* after the dentry itself (list_for_each_entry).
LinkOthers(im, d) ==
  LET g == im.link_group[d]
  IN SortedSeq({o \in g : o > d}) \o SortedSeq({o \in g : o < d})

RECURSIVE PreOrderList(_, _)
\* PreOrderList taking the siblings from the last to the first.
PreOrderList_LastFirst(im, ds) ==
  IF ds = <<>> THEN <<>>
  ELSE <<ds[Len(ds)]>> \o PreOrderList(im, Children(im, ds[Len(ds)]))
                       \o PreOrderList(im, SubSeq(ds, 1, Len(ds) - 1))

\* for_dentry_in_tree over a list of siblings: each dentry, then its subtree.
PreOrderList(im, ds) ==
  IF ds = <<>> THEN <<>>
  ELSE <<Head(ds)>> \o PreOrderList(im, Children(im, Head(ds)))
                    \o PreOrderList(im, Tail(ds))

\* for_dentry_in_tree(root, ...): the visiting order of the pre-order walk.
for_dentry_in_tree(im) == PreOrderList(im, <<0>>)

RECURSIVE PostOrderList(_, _)
PostOrderList(im, ds) ==
  IF ds = <<>> THEN <<>>
  ELSE PostOrderList(im, Children(im, Head(ds))) \o <<Head(ds)>>
                    \o PostOrderList(im, Tail(ds))

\* for_dentry_in_tree_depth visiting each parent before its children.
for_dentry_in_tree_depth_ParentFirst(im) == PreOrderList(im, <<0>>)

\* for_dentry_in_tree_depth(root, ...): children before their parent.
for_dentry_in_tree_depth(im) == PostOrderList(im, <<0>>)

(* ----------------------- the images applied ---------------------------- *)

StreamStates == {"none", "good", "bad"}

\* The streams of an inode: the unnamed stream, then its alternate data
\* streams; each names no lookup-table entry ("none"), an entry whose content
\* hashes to its recorded digest ("good"), or one whose content does not.
StreamSeqs ==
  UNION {[1..k -> StreamStates] : k \in 1..(1 + MaxAds)}

CountIn(s, v) == Cardinality({i \in 1..Len(s) : s[i] = v})

\* What a non-default inode adds to the size of an image.
FeatureSize(reparse, streams, default) ==
  (IF reparse THEN 1 ELSE 0) + (Len(streams) - 1) + CountIn(streams, "bad")
  + (IF streams[1] # default /\ streams[1] # "bad" THEN 1 ELSE 0)

MkImage(n, par, dirs, linked, shorts, secure, sp, reparse, streams) ==
  [ n |-> n,
    parent |-> par,
    attributes |->
      [d \in 0..n |->
         (IF d = 0 \/ d \in dirs THEN {"DIRECTORY"} ELSE {})
         \cup (IF reparse /\ (d = sp \/ (sp \in linked /\ d \in linked))
               THEN {"REPARSE_POINT"} ELSE {})],
    short_name_len |-> [d \in 0..n |-> IF d \in shorts THEN 1 ELSE 0],
    link_group |-> [d \in 0..n |-> IF d \in linked THEN linked ELSE {d}],
    streams |->
      [d \in 0..n |->
         IF d = sp \/ (sp \in linked /\ d \in linked) THEN streams
         ELSE IF d = 0 \/ d \in dirs THEN <<"none">> ELSE <<"good">>],
    security_id |-> [d \in 0..n |-> IF secure THEN 0 ELSE -1] ]

(* ---------------------- struct capture_config -------------------------- *)

\* A struct pattern_list after memset(0): no patterns, nothing allocated.
EmptyPatternList == [pats |-> <<>>, num_allocated_pats |-> 0]

\* A struct capture_config after memset(config, 0, sizeof(*config)).
ZeroConfig ==
  [exclusion_list |-> EmptyPatternList,
   exclusion_exception |-> EmptyPatternList,
   compression_exclusion_list |-> EmptyPatternList,
   alignment_list |-> EmptyPatternList,
   prefix |-> <<>>]

NoQuery == [path |-> <<>>, exclude_prefix |-> FALSE, result |-> FALSE]

\* No reparse point is being captured or applied.
NoReparsePoint ==
  [pc |-> "idle", file |-> "none", dentry |-> "none", ret |-> OK,
   written |-> "none", ok |-> <<>>]

\* The caller passes no progress function (progress_func is NULL), and none
\* has been called.
NoProgress == progress = "none" /\ events = <<>>

\* No capture configuration is being parsed or consulted.
NoConfig ==
  /\ config_in = <<>>
  /\ capture_config = ZeroConfig
  /\ config_pc = "idle"
  /\ config_ret = OK
  /\ query = NoQuery
  /\ reparse_point = NoReparsePoint

(* ------------------------------ Init ----------------------------------- *)

InitImage(im, fb) ==
  /\ img = im
  /\ phase = "mount"
  /\ todo = <<>>
  /\ stack = <<>>
  /\ extracted_file = [d \in 0..im.n |-> NoPath]
  /\ vol = [d \in 0..im.n |-> IF d = 0 THEN 0 ELSE NoPath]
  /\ log = <<>>
  /\ ret = OK
  /\ faults = fb
  /\ EmptyWim /\ cfaults = 0 /\ work = 0 /\ win32 = FALSE
  /\ NoProgress
  /\ NoConfig

InitApply ==
  \E n \in 1..MaxSize :
  \E fb \in 0..MaxFaults :
  \E secure \in BOOLEAN :
    /\ n + fb + (IF secure THEN 1 ELSE 0) <= MaxSize
    /\ \E par \in [1..n -> 0..(n - 1)] :
       \E dirs \in SUBSET (1..n) :
         /\ \A d \in 1..n : par[d] < d /\ par[d] \in dirs \cup {0}
         /\ \E linked \in SUBSET ((1..n) \ dirs) :
            \E shorts \in SUBSET ((1..n) \ dirs) :
              /\ Cardinality(linked) # 1
              /\ LET left == MaxSize - n - fb - (IF secure THEN 1 ELSE 0)
                     leaves == {d \in 1..n : \A c \in 1..n : par[c] # d}
                     reps == {d \in leaves : d \notin linked
                                             \/ \A o \in linked : d <= o}
                 IN \/ InitImage(MkImage(n, par, dirs, linked, shorts, secure,
                                         0, FALSE, <<"none">>), fb)
                    \/ \E sp \in reps :
                       \E reparse \in BOOLEAN :
                       \E streams \in StreamSeqs :
                         LET default == IF sp \in dirs THEN "none" ELSE "good"
                             size == FeatureSize(reparse, streams, default)
                         IN /\ size >= 1
                            /\ size <= left
                            /\ InitImage(MkImage(n, par, dirs, linked, shorts,
                                                 secure, sp, reparse, streams),
                                         fb)

(* --------------------------- adapter calls ----------------------------- *)

\* One adapter call as recorded in the log: the operation, the dentry it is
\* issued for, its argument (the dentry whose path is named, or NoPath), the
\* state of the content it carries ("" when it carries none), and whether it
\* succeeded.
Op(op, d, arg, data, ok) ==
  [op |-> op, d |-> d, arg |-> arg, data |-> data, ok |-> ok]

\* One call of a script: the call, whether the target lets it succeed, and
\* the error the code returns when it fails.
Call(op, d, arg, data, nat, err) ==
  [op |-> op, d |-> d, arg |-> arg, data |-> data, nat |-> nat, err |-> err]

\* The ways a sequence of calls, issued in order until the first one fails,
\* can end when the environment may still inject fl failures: every call
\* succeeds, or call k fails (because the target refuses it, or by injection).
RunOps(script, fl) ==
  LET n == Len(script)
      Entry(i, ok) == Op(script[i].op, script[i].d, script[i].arg,
                         script[i].data, ok)
      Prefix(k) == [i \in 1..k |-> Entry(i, TRUE)]
      NatOK(k) == \A i \in 1..k : script[i].nat
  IN  {[entries |-> Prefix(n), res |-> OK, at |-> 0, inj |-> 0]
         : x \in IF NatOK(n) THEN {1} ELSE {}}
      \cup
      {[entries |-> Append(Prefix(k - 1), Entry(k, FALSE)),
        res |-> script[k].err, at |-> k,
        inj |-> IF script[k].nat THEN 1 ELSE 0]
         : k \in {j \in 1..n : NatOK(j - 1) /\ (~script[j].nat \/ fl > 0)}}

\* The outcomes of one call that the target lets succeed.
Outcomes(fl) == IF fl > 0 THEN {TRUE, FALSE} ELSE {TRUE}

Exists(path) == path # NoPath /\ vol[path] # NoPath

(* ------------------------- frames and walks ---------------------------- *)

Frame(fn, d, pc) ==
  [fn |-> fn, d |-> d, pc |-> pc, is_hardlink |-> FALSE, ni |-> FALSE,
   ret |-> OK, idx |-> 0]

Top == stack[Len(stack)]
SetTop(f) == [stack EXCEPT ![Len(stack)] = f]

\* do_wim_apply_dentry_ntfs, lines 354-356: a dentry with the DIRECTORY
\* attribute goes straight to ntfs_create, any other is pre-applied first.
EntryPc(d) == IF HasDirectoryAttr(img, d) THEN "create" ELSE "preapply"

\* do_wim_apply_dentry_ntfs, lines 427-429 and 500: at out_set_dos_name the
\* DOS name is set if the dentry has one, otherwise the inodes are closed.
DosNamePc(d) == IF img.short_name_len[d] # 0 THEN "dosname" ELSE "close"

\* The tree walk after the visitor returned r for the dentry just visited,
\* with rest still to visit: the walk stops at the first nonzero result
\* (lines 642-650).
Walked(r, rest) ==
  IF r # OK
  THEN phase' = "umount" /\ todo' = <<>> /\ ret' = r
  ELSE IF rest # <<>>
  THEN phase' = phase /\ todo' = rest /\ ret' = ret
  ELSE IF phase = "pass1"
  THEN phase' = "pass2" /\ todo' = for_dentry_in_tree_depth(img) /\ ret' = ret
  ELSE phase' = "umount" /\ todo' = <<>> /\ ret' = ret

\* The top frame returns r.  A caller is suspended in
\* preapply_dentry_with_dos_name: on a nonzero result it returns it at once
\* (lines 314-315, 362-363), otherwise it goes on to re-open its directory.
Return(r) ==
  IF Len(stack) > 1 /\ r = OK
  THEN /\ stack' = [SubSeq(stack, 1, Len(stack) - 1)
                      EXCEPT ![Len(stack) - 1].pc = "reopen"]
       /\ UNCHANGED <<phase, todo, ret>>
  ELSE /\ stack' = <<>>
       /\ Walked(r, todo)

(* ------------------------------ pass 1 --------------------------------- *)

\* do_wim_apply_image_ntfs, lines 631-641: mount the volume, start pass 1.
NtfsMount ==
  /\ phase = "mount"
  /\ \E ok \in Outcomes(faults) :
       /\ log' = Append(log, Op("mount", 0, NoPath, "", ok))
       /\ faults' = IF ok THEN faults ELSE faults - 1
       /\ IF ok
          THEN phase' = "pass1" /\ todo' = for_dentry_in_tree(img) /\ ret' = OK
          ELSE phase' = "done" /\ todo' = <<>> /\ ret' = ERR_NTFS_3G
  /\ UNCHANGED <<img, stack, extracted_file, vol>>
  /\ UNCHANGED <<captureVars, configVars, reparseVars>>

\* wim_apply_dentry_ntfs: the visitor of pass 1.
WimApplyDentryNtfs ==
  /\ phase = "pass1" /\ stack = <<>> /\ todo # <<>>
  /\ LET d == Head(todo)
         rest == Tail(todo)
     IN IF extracted_file[d] # NoPath
        THEN /\ Walked(OK, rest)
             /\ UNCHANGED <<stack, log, faults>>
        ELSE LET dir == IF dentry_is_root(d) THEN 0 ELSE img.parent[d]
             IN \E o \in RunOps(<<Call("pathname_to_inode", d, dir, "",
                                       Exists(dir), ERR_NTFS_3G)>>, faults) :
                  /\ log' = log \o o.entries
                  /\ faults' = faults - o.inj
                  /\ IF o.res = OK
                     THEN /\ stack' = <<IF dentry_is_root(d)
                                        THEN Frame("root", d, "root_attrs")
                                        ELSE Frame("do_apply", d, EntryPc(d))>>
                          /\ todo' = rest
                          /\ UNCHANGED <<phase, ret>>
                     ELSE /\ stack' = <<>>
                          /\ Walked(o.res, rest)
  /\ UNCHANGED <<img, extracted_file, vol>>
  /\ UNCHANGED <<captureVars, configVars, reparseVars>>

\* apply_file_attributes_and_security_data as a script of adapter calls.
AttrScript(d) ==
  <<Call("set_attributes", d, NoPath, "", TRUE, ERR_NTFS_3G)>>
  \o (IF img.security_id[d] # -1
      THEN <<Call("set_security", d, NoPath, "", TRUE, ERR_NTFS_3G)>>
      ELSE <<>>)

\* wim_apply_root_dentry_ntfs: attributes and security of the root, then the
\* inode is closed whatever happened.
WimApplyRootDentryNtfs ==
  /\ phase = "pass1" /\ stack # <<>> /\ Top.fn = "root"
  /\ \E o \in RunOps(AttrScript(Top.d), faults) :
     \E okc \in Outcomes(faults - o.inj) :
       /\ log' = (log \o o.entries) \o <<Op("close", Top.d, Top.d, "", okc)>>
       /\ faults' = faults - o.inj - (IF okc THEN 0 ELSE 1)
       /\ Return(IF okc THEN o.res ELSE ERR_NTFS_3G)
  /\ UNCHANGED <<img, extracted_file, vol>>
  /\ UNCHANGED <<captureVars, configVars, reparseVars>>

\* DosNamed without the comparison of the parents.
DosNamed_AnyDirectory(d) ==
  SelectSeq(LinkOthers(img, d), LAMBDA o : img.short_name_len[o] # 0)

\* The hard-linked dentries in the directory of d that have a DOS name
\* (the scan of preapply_dentry_with_dos_name, lines 290-302).
DosNamed(d) ==
  SelectSeq(LinkOthers(img, d),
            LAMBDA o : img.parent[d] = img.parent[o]
                       /\ img.short_name_len[o] # 0)

\* PreapplyDentryWithDosName without the extraction of the DOS-named dentry.
PreapplyDentryWithDosName_Skipped ==
  /\ phase = "pass1" /\ stack # <<>> /\ Top.fn = "do_apply"
  /\ Top.pc = "preapply"
  /\ log' = log
  /\ stack' = SetTop([Top EXCEPT !.pc = "link"])
  /\ UNCHANGED <<phase, todo, ret>>
  /\ UNCHANGED <<img, extracted_file, vol, faults>>
  /\ UNCHANGED <<captureVars, configVars, reparseVars>>

\* preapply_dentry_with_dos_name up to its recursive call.
PreapplyDentryWithDosName ==
  /\ phase = "pass1" /\ stack # <<>> /\ Top.fn = "do_apply"
  /\ Top.pc = "preapply"
  /\ LET d == Top.d
         dos == DosNamed(d)
     IN IF Len(dos) >= 2
        THEN /\ log' = Append(log, Op("check", d, dos[1], "", FALSE))
             /\ Return(ERR_INVALID_DENTRY)
        ELSE IF Len(dos) = 1 /\ extracted_file[dos[1]] = NoPath
        THEN /\ log' = log
             /\ IF Len(stack) >= MaxStack
                THEN phase' = "crashed" /\ stack' = stack
                ELSE phase' = phase
                     /\ stack' = Append(stack, Frame("do_apply", dos[1],
                                                     EntryPc(dos[1])))
             /\ UNCHANGED <<todo, ret>>
        ELSE /\ log' = log
             /\ stack' = SetTop([Top EXCEPT !.pc = "link"])
             /\ UNCHANGED <<phase, todo, ret>>
  /\ UNCHANGED <<img, extracted_file, vol, faults>>
  /\ UNCHANGED <<captureVars, configVars, reparseVars>>

\* preapply_dentry_with_dos_name after the DOS-named dentry was extracted:
\* the directory inode is looked up again (lines 316-331).
PreapplyReopenDir ==
  /\ phase = "pass1" /\ stack # <<>> /\ Top.fn = "do_apply"
  /\ Top.pc = "reopen"
  /\ LET d == Top.d
     IN \E o \in RunOps(<<Call("pathname_to_inode", d, img.parent[d], "",
                               Exists(img.parent[d]), ERR_NTFS_3G)>>, faults) :
          /\ log' = log \o o.entries
          /\ faults' = faults - o.inj
          /\ IF o.res = OK
             THEN /\ stack' = SetTop([Top EXCEPT !.pc = "link"])
                  /\ UNCHANGED <<phase, todo, ret>>
             ELSE Return(o.res)
  /\ UNCHANGED <<img, extracted_file, vol>>
  /\ UNCHANGED <<captureVars, configVars, reparseVars>>

\* ExtractedOthers when the scan for an extracted member is left out.
ExtractedOthers_None(d) == <<>>

\* The members of the link group of d that already have an extracted_file
\* (the scan of do_wim_apply_dentry_ntfs, lines 367-369).
ExtractedOthers(d) ==
  SelectSeq(LinkOthers(img, d), LAMBDA o : extracted_file[o] # NoPath)

\* do_wim_apply_dentry_ntfs, lines 365-381, with wim_apply_hardlink_ntfs:
\* another member of the link group is extracted, so a hard link is made.
WimApplyHardlinkNtfs ==
  /\ phase = "pass1" /\ stack # <<>> /\ Top.fn = "do_apply"
  /\ Top.pc = "link"
  /\ ExtractedOthers(Top.d) # <<>>
  /\ LET d == Top.d
         other == ExtractedOthers(d)[1]
         to == extracted_file[other]
     IN \E o \in RunOps(<<Call("pathname_to_inode", d, to, "",
                               Exists(to), ERR_NTFS_3G),
                          Call("link", d, to, "",
                               vol[d] = NoPath, ERR_NTFS_3G)>>, faults) :
          /\ log' = log \o o.entries
          /\ faults' = faults - o.inj
          /\ vol' = IF o.res = OK THEN [vol EXCEPT ![d] = vol[to]] ELSE vol
          /\ stack' = SetTop([Top EXCEPT
                                !.is_hardlink = TRUE,
                                !.ni = (o.at # 1),
                                !.ret = o.res,
                                !.pc = IF o.res = OK THEN DosNamePc(d)
                                       ELSE "close"])
  /\ UNCHANGED <<img, phase, todo, extracted_file, ret>>
  /\ UNCHANGED <<captureVars, configVars, reparseVars>>

\* wim_apply_hardlink_ntfs, lines 161-162: in a build with assertions the
\* process aborts when either dentry is not a regular file (a build without
\* them goes on to make the link, as WimApplyHardlinkNtfs does).
HardlinkAssertionFails ==
  /\ phase = "pass1" /\ stack # <<>> /\ Top.fn = "do_apply"
  /\ Top.pc = "link"
  /\ ExtractedOthers(Top.d) # <<>>
  /\ ~(dentry_is_regular_file(img, Top.d)
       /\ dentry_is_regular_file(img, ExtractedOthers(Top.d)[1]))
  /\ phase' = "aborted"
  /\ UNCHANGED <<img, todo, stack, extracted_file, vol, log, ret, faults>>
  /\ UNCHANGED <<captureVars, configVars, reparseVars>>

\* RecordExtractedFile without the assignment to dentry->extracted_file.
RecordExtractedFile_Unrecorded ==
  /\ phase = "pass1" /\ stack # <<>> /\ Top.fn = "do_apply"
  /\ Top.pc = "link"
  /\ ExtractedOthers(Top.d) = <<>>
  /\ LET d == Top.d
     IN \E o \in RunOps(<<Call("strdup", d, d, "", TRUE, ERR_NOMEM)>>,
                        faults) :
          /\ log' = log \o o.entries
          /\ faults' = faults - o.inj
          /\ extracted_file' = extracted_file
          /\ IF o.res = OK
             THEN /\ stack' = SetTop([Top EXCEPT !.pc = "create"])
                  /\ UNCHANGED <<phase, todo, ret>>
             ELSE Return(o.res)
  /\ UNCHANGED <<img, vol>>
  /\ UNCHANGED <<captureVars, configVars, reparseVars>>

\* do_wim_apply_dentry_ntfs, lines 382-388: no member of the link group is
\* extracted yet, so this dentry is the one extracted as a file.
RecordExtractedFile ==
  /\ phase = "pass1" /\ stack # <<>> /\ Top.fn = "do_apply"
  /\ Top.pc = "link"
  /\ ExtractedOthers(Top.d) = <<>>
  /\ LET d == Top.d
     IN \E o \in RunOps(<<Call("strdup", d, d, "", TRUE, ERR_NOMEM)>>,
                        faults) :
          /\ log' = log \o o.entries
          /\ faults' = faults - o.inj
          /\ IF o.res = OK
             THEN /\ extracted_file' = [extracted_file EXCEPT ![d] = d]
                  /\ stack' = SetTop([Top EXCEPT !.pc = "create"])
                  /\ UNCHANGED <<phase, todo, ret>>
             ELSE /\ extracted_file' = [extracted_file EXCEPT ![d] = NoPath]
                  /\ Return(o.res)
  /\ UNCHANGED <<img, vol>>
  /\ UNCHANGED <<captureVars, configVars, reparseVars>>

\* do_wim_apply_dentry_ntfs, lines 397-414: ntfs_create of a directory or a
\* file; data streams follow unless it is a directory or a reparse point.
NtfsCreate ==
  /\ phase = "pass1" /\ stack # <<>> /\ Top.fn = "do_apply"
  /\ Top.pc = "create"
  /\ LET d == Top.d
         type == IF HasDirectoryAttr(img, d) THEN "create_dir"
                 ELSE "create_file"
     IN \E o \in RunOps(<<Call(type, d, d, "", vol[d] = NoPath,
                               ERR_NTFS_3G)>>, faults) :
          /\ log' = log \o o.entries
          /\ faults' = faults - o.inj
          /\ vol' = IF o.res = OK THEN [vol EXCEPT ![d] = d] ELSE vol
          /\ stack' = SetTop([Top EXCEPT
                                !.ni = (o.res = OK),
                                !.ret = o.res,
                                !.pc = IF o.res # OK THEN "close"
                                       ELSE IF ~dentry_is_directory(img, d)
                                               /\ ~HasReparseAttr(img, d)
                                       THEN "streams"
                                       ELSE "attrs"])
  /\ UNCHANGED <<img, phase, todo, extracted_file, ret>>
  /\ UNCHANGED <<captureVars, configVars, reparseVars>>

\* dentry->num_ads
num_ads(d) == Len(img.streams[d]) - 1

\* dentry_stream_lte(dentry, stream_idx, table): the state of the lookup
\* table entry of stream stream_idx (0 is the unnamed stream), "none" if NULL.
dentry_stream_lte(d, stream_idx) == img.streams[d][stream_idx + 1]

\* extract_wim_resource_to_ntfs_attr as a script: the resource is read and
\* written (one chunk).
ExtractScript(d, lte) ==
  <<Call("read", d, NoPath, lte, TRUE, ERR_READ),
    Call("write", d, NoPath, lte, TRUE, ERR_WRITE)>>

\* extract_wim_resource_to_ntfs_attr: the result for outcome o of its
\* script.  A failed read leaves the loop and the digest of what was read so
\* far is compared (lines 75-76, 85-92); a failed write returns at once.
ExtractResult(o, lte) ==
  IF o.res = ERR_WRITE THEN ERR_WRITE
  ELSE IF o.res = ERR_READ THEN ERR_INVALID_RESOURCE_HASH
  ELSE IF lte = "bad" THEN ERR_INVALID_RESOURCE_HASH
  ELSE OK

\* write_ntfs_data_streams: one turn of its loop, for stream Top.idx.
WriteNtfsDataStreams ==
  /\ phase = "pass1" /\ stack # <<>> /\ Top.fn = "do_apply"
  /\ Top.pc = "streams"
  /\ LET d == Top.d
         lte == dentry_stream_lte(d, Top.idx)
         open == <<Call("attr_open", d, Top.idx, "", TRUE, ERR_NTFS_3G)>>
         script == IF lte # "none" THEN open \o ExtractScript(d, lte)
                   ELSE open
     IN \E o \in RunOps(script, faults) :
          LET r == IF o.at = 1 \/ lte = "none" THEN o.res
                   ELSE ExtractResult(o, lte)
          IN /\ log' = log \o o.entries
             /\ faults' = faults - o.inj
             /\ stack' = SetTop([Top EXCEPT
                                   !.ret = r,
                                   !.idx = IF r = OK /\ Top.idx # num_ads(d)
                                           THEN Top.idx + 1 ELSE Top.idx,
                                   !.pc = IF r # OK THEN "close"
                                          ELSE IF Top.idx = num_ads(d)
                                          THEN "attrs"
                                          ELSE "streams"])
  /\ UNCHANGED <<img, phase, todo, extracted_file, vol, ret>>
  /\ UNCHANGED <<captureVars, configVars, reparseVars>>

\* do_wim_apply_dentry_ntfs, lines 417-425.
ApplyFileAttributesAndSecurityData ==
  /\ phase = "pass1" /\ stack # <<>> /\ Top.fn = "do_apply"
  /\ Top.pc = "attrs"
  /\ LET d == Top.d
     IN \E o \in RunOps(AttrScript(d), faults) :
          /\ log' = log \o o.entries
          /\ faults' = faults - o.inj
          /\ stack' = SetTop([Top EXCEPT
                                !.ret = o.res,
                                !.pc = IF o.res # OK THEN "close"
                                       ELSE IF HasReparseAttr(img, d)
                                       THEN "reparse"
                                       ELSE DosNamePc(d)])
  /\ UNCHANGED <<img, phase, todo, extracted_file, vol, ret>>
  /\ UNCHANGED <<captureVars, configVars, reparseVars>>

\* dentry_first_lte(dentry, table): the lookup table entry of the first
\* stream of the dentry that names one, "none" if there is none.
dentry_first_lte(d) ==
  LET named == SelectSeq(img.streams[d], LAMBDA x : x # "none")
  IN IF named = <<>> THEN "none" ELSE named[1]

\* read_full_wim_resource(lte, buf): reads the whole resource into buf; it
\* returns an error only when the read fails.
read_full_wim_resource(d, lte) == Call("read", d, NoPath, lte, TRUE, ERR_READ)

\* apply_reparse_data.
ApplyReparseData ==
  /\ phase = "pass1" /\ stack # <<>> /\ Top.fn = "do_apply"
  /\ Top.pc = "reparse"
  /\ LET d == Top.d
         lte == dentry_first_lte(d)
     IN IF lte = "none"
        THEN /\ log' = Append(log, Op("check", d, NoPath, "", FALSE))
             /\ faults' = faults
             /\ stack' = SetTop([Top EXCEPT !.ret = ERR_INVALID_DENTRY,
                                            !.pc = "close"])
        ELSE \E o \in RunOps(<<read_full_wim_resource(d, lte),
                               Call("set_reparse", d, NoPath, lte, TRUE,
                                    ERR_NTFS_3G)>>, faults) :
               /\ log' = log \o o.entries
               /\ faults' = faults - o.inj
               /\ stack' = SetTop([Top EXCEPT
                                     !.ret = o.res,
                                     !.pc = IF o.res # OK THEN "close"
                                            ELSE DosNamePc(d)])
  /\ UNCHANGED <<img, phase, todo, extracted_file, vol, ret>>
  /\ UNCHANGED <<captureVars, configVars, reparseVars>>

\* do_wim_apply_dentry_ntfs, lines 427-498: the DOS name of a dentry that
\* has one.  After a hard link both inodes are closed and looked up again
\* first; the result of ntfs_set_ntfs_dos_name is what is returned.
SetDosName ==
  /\ phase = "pass1" /\ stack # <<>> /\ Top.fn = "do_apply"
  /\ Top.pc = "dosname"
  /\ LET d == Top.d
         setname == Call("set_dos_name", d, NoPath, "", TRUE, ERR_NTFS_3G)
     IN \E a \in RunOps(<<Call("utf16_to_utf8", d, NoPath, "", TRUE,
                               ERR_NOMEM)>>, faults) :
          IF a.res # OK
          THEN /\ log' = log \o a.entries
               /\ faults' = faults - a.inj
               /\ stack' = SetTop([Top EXCEPT !.ret = a.res, !.pc = "close"])
               /\ UNCHANGED <<phase, todo, ret>>
          ELSE IF ~Top.is_hardlink
          THEN \E o \in RunOps(<<setname>>, faults) :
                 /\ log' = (log \o a.entries) \o o.entries
                 /\ faults' = faults - o.inj
                 /\ Return(o.res)
          ELSE \E okd \in Outcomes(faults) :
               \E okn \in Outcomes(faults - (IF okd THEN 0 ELSE 1)) :
                 LET left == faults - (IF okd THEN 0 ELSE 1)
                                    - (IF okn THEN 0 ELSE 1)
                 IN \E o \in RunOps(
                           <<Call("pathname_to_inode", d, img.parent[d], "",
                                  Exists(img.parent[d]), ERR_NTFS_3G),
                             Call("pathname_to_inode", d, d, "",
                                  Exists(d), ERR_NTFS_3G),
                             setname>>, left) :
                      /\ log' = ((log \o a.entries)
                                 \o <<Op("close", d, img.parent[d], "", okd),
                                      Op("close", d, d, "", okn)>>)
                                \o o.entries
                      /\ faults' = left - o.inj
                      /\ Return(o.res)
  /\ UNCHANGED <<img, extracted_file, vol>>
  /\ UNCHANGED <<captureVars, configVars, reparseVars>>

\* do_wim_apply_dentry_ntfs, lines 500-512 (out_close_dir_ni): both inodes
\* are closed; a failed close is reported only if nothing failed before.
CloseInodes ==
  /\ phase = "pass1" /\ stack # <<>> /\ Top.fn = "do_apply"
  /\ Top.pc = "close"
  /\ LET d == Top.d
     IN \E okd \in Outcomes(faults) :
        \E okn \in IF Top.ni THEN Outcomes(faults - (IF okd THEN 0 ELSE 1))
                   ELSE {TRUE} :
          /\ log' = (log \o <<Op("close", d, img.parent[d], "", okd)>>)
                    \o (IF Top.ni THEN <<Op("close", d, d, "", okn)>>
                        ELSE <<>>)
          /\ faults' = faults - (IF okd THEN 0 ELSE 1)
                              - (IF okn THEN 0 ELSE 1)
          /\ Return(IF Top.ret # OK THEN Top.ret
                    ELSE IF okd /\ okn THEN OK ELSE ERR_NTFS_3G)
  /\ UNCHANGED <<img, extracted_file, vol>>
  /\ UNCHANGED <<captureVars, configVars, reparseVars>>

(* ------------------------------ pass 2 --------------------------------- *)

\* wim_apply_dentry_timestamps: the visitor of pass 2.
WimApplyDentryTimestamps ==
  /\ phase = "pass2" /\ todo # <<>>
  /\ LET d == Head(todo)
     IN \E o \in RunOps(<<Call("pathname_to_inode", d, d, "", Exists(d),
                               ERR_NTFS_3G)>>, faults) :
          IF o.res # OK
          THEN /\ log' = log \o o.entries
               /\ faults' = faults - o.inj
               /\ Walked(o.res, Tail(todo))
          ELSE \E okt \in Outcomes(faults) :
               \E okc \in Outcomes(faults - (IF okt THEN 0 ELSE 1)) :
                 /\ log' = (log \o o.entries)
                           \o <<Op("set_times", d, NoPath, "", okt),
                                Op("close", d, d, "", okc)>>
                 /\ faults' = faults - (IF okt THEN 0 ELSE 1)
                                     - (IF okc THEN 0 ELSE 1)
                 /\ Walked(IF okt /\ okc THEN OK ELSE ERR_NTFS_3G, Tail(todo))
  /\ UNCHANGED <<img, stack, extracted_file, vol>>
  /\ UNCHANGED <<captureVars, configVars, reparseVars>>

\* do_wim_apply_image_ntfs, lines 651-658: the volume is unmounted on every
\* path; a failed unmount is reported only if nothing failed before.
NtfsUmount ==
  /\ phase = "umount"
  /\ \E ok \in Outcomes(faults) :
       /\ log' = Append(log, Op("umount", 0, NoPath, "", ok))
       /\ faults' = IF ok THEN faults ELSE faults - 1
       /\ ret' = IF ~ok /\ ret = OK THEN ERR_NTFS_3G ELSE ret
  /\ phase' = "done"
  /\ UNCHANGED <<img, todo, stack, extracted_file, vol>>
  /\ UNCHANGED <<captureVars, configVars, reparseVars>>

NextApply ==
  \/ NtfsMount
  \/ WimApplyDentryNtfs
  \/ WimApplyRootDentryNtfs
  \/ PreapplyDentryWithDosName
  \/ PreapplyReopenDir
  \/ WimApplyHardlinkNtfs
  \/ HardlinkAssertionFails
  \/ RecordExtractedFile
  \/ NtfsCreate
  \/ WriteNtfsDataStreams
  \/ ApplyFileAttributesAndSecurityData
  \/ ApplyReparseData
  \/ SetDosName
  \/ CloseInodes
  \/ WimApplyDentryTimestamps
  \/ NtfsUmount

SpecApply == InitApply /\ [][NextApply]_vars
(* ----------------- reading the log of adapter calls -------------------- *)

LogIdx == 1..Len(log)

\* Calls that put a name on the target volume.
MadeOps == {"create_file", "create_dir", "link"}
\* Calls that give a created inode its content and metadata.
PopulateOps == {"attr_open", "write", "set_attributes", "set_security",
                "set_reparse"}
\* Calls that change the target volume.
TargetOps == MadeOps \cup PopulateOps \cup {"set_dos_name", "set_times"}

\* The link groups of the image with more than one member.
LinkGroups ==
  {img.link_group[d] : d \in {x \in 1..img.n :
                                Cardinality(img.link_group[x]) > 1}}

\* Position of dentry d in the pre-order walk of the image.
VisitPos(d) ==
  LET w == for_dentry_in_tree(img)
  IN CHOOSE i \in 1..Len(w) : w[i] = d

\* The member of link group g that the pre-order walk visits first.
FirstVisited(g) == CHOOSE m \in g : \A o \in g : VisitPos(m) <= VisitPos(o)

DosMembers(g) == {m \in g : img.short_name_len[m] # 0}

\* The apply has ended, in a return or in the death of the process.
Ended == phase \in {"done", "crashed", "aborted"}

\* Some successful call op was issued for dentry d before log position i.
DoneBefore(op, d, i) ==
  \E j \in 1..(i - 1) : log[j].op = op /\ log[j].d = d /\ log[j].ok

\* Every stream of d that names content was written before log position i.
WrittenBefore(d, i) ==
  HasReparseAttr(img, d)
  \/ Cardinality({j \in 1..(i - 1) : log[j].op = "write" /\ log[j].d = d
                                     /\ log[j].ok})
     = Len(SelectSeq(img.streams[d], LAMBDA x : x # "none"))

\* Every member of every link group has its name on the target.
AllMembersMade ==
  \A g \in LinkGroups : \A m \in g :
    \E i \in LogIdx : log[i].op \in MadeOps /\ log[i].d = m /\ log[i].ok

\* Link group g has primaries ps: only a member of ps is created as a file,
\* every hard link of the group is made against a member of ps that was
\* created and populated before, and nothing is added to it afterwards.
HasPrimaries(g, ps) ==
  \A i \in LogIdx :
    LET e == log[i]
    IN e.d \in g =>
         /\ e.op = "create_file" => e.d \in ps
         /\ e.op = "link" =>
              /\ e.arg \in ps /\ e.arg # e.d
              /\ DoneBefore("create_file", e.arg, i)
              /\ DoneBefore("set_attributes", e.arg, i)
              /\ WrittenBefore(e.arg, i)
              /\ \A k \in LogIdx :
                   k > i => ~(log[k].d = e.arg /\ log[k].op \in PopulateOps)

(* ------------------------------ C1 ------------------------------------- *)

\* The primary of a link group as the specification names it: the member
\* with a DOS short name if the group has one, else the first one visited.
ClaimedPrimaries(g) ==
  IF DosMembers(g) # {} THEN DosMembers(g) ELSE {FirstVisited(g)}

\* C1 as stated: in every link group, also one whose members lie in
\* different directories, the member with a DOS short name (the first
\* visited one if none has) is the one created as a file and populated, before
\* any hard link of the group; every other member is a hard link against it.
C1_PrimaryIsDosNamed ==
  /\ \A g \in LinkGroups : HasPrimaries(g, ClaimedPrimaries(g))
  /\ (phase = "done" /\ ret = OK) => AllMembersMade

\* The DOS-named members in the directory of the first member visited.
SameDirDos(g) ==
  LET f == FirstVisited(g)
  IN {m \in g \ {f} : img.parent[m] = img.parent[f]
                      /\ img.short_name_len[m] # 0}

Primaries(g) ==
  IF SameDirDos(g) # {} THEN SameDirDos(g) ELSE {FirstVisited(g)}

\* C1 amended: the primary of a link group is the DOS-named member lying in
\* the directory of the first member the walk visits, and that first member
\* itself if its directory holds no other DOS-named member; the primary is
\* the only member created as a file, it is populated before any hard link
\* of the group is made, and every other member is a hard link against it.
C1_PrimaryFirst ==
  /\ \A g \in LinkGroups : HasPrimaries(g, Primaries(g))
  /\ (phase = "done" /\ ret = OK) => AllMembersMade

\* A link group across two directories whose DOS-named member lies in the
\* second one was applied: its first member became the primary.
C1_Witness ==
  /\ phase = "done" /\ ret = OK
  /\ \E g \in LinkGroups :
       /\ \E m \in DosMembers(g) : img.parent[m] # img.parent[FirstVisited(g)]
       /\ \E i \in LogIdx : log[i].op = "link" /\ log[i].d \in DosMembers(g)
                            /\ log[i].arg = FirstVisited(g) /\ log[i].ok

(* ------------------------------ C2 ------------------------------------- *)

\* The members of g lie in one directory and exactly one has a DOS name.
SingleDirOneDos(g) ==
  /\ \A a, b \in g : img.parent[a] = img.parent[b]
  /\ Cardinality(DosMembers(g)) = 1

\* C2: in a link group whose members lie in one directory and of which
\* exactly one has a DOS short name, that member is created and its DOS name
\* is set before any other member of the group is created or hard-linked.
C2_DosNameFirst ==
  \A g \in LinkGroups :
    SingleDirOneDos(g) =>
      LET b == CHOOSE m \in g : img.short_name_len[m] # 0
      IN \A i \in LogIdx :
           (log[i].d \in g \ {b} /\ log[i].op \in MadeOps) =>
             /\ DoneBefore("create_file", b, i)
             /\ DoneBefore("set_dos_name", b, i)

\* Such a group, whose DOS-named member is enumerated after another member,
\* was applied to the end: the earlier member became a hard link.
C2_Witness ==
  /\ phase = "done" /\ ret = OK
  /\ \E g \in LinkGroups :
       /\ SingleDirOneDos(g)
       /\ \E b \in DosMembers(g) : \E m \in g :
            /\ m < b
            /\ \E i \in LogIdx : log[i].op = "link" /\ log[i].d = m
                                 /\ log[i].arg = b /\ log[i].ok

(* ------------------------------ C3 ------------------------------------- *)

\* Two members of g in one directory both have a DOS name.
TwoDosNames(g) ==
  \E a, b \in DosMembers(g) : a # b /\ img.parent[a] = img.parent[b]

\* No adapter call failed and every stream of the image has the content its
\* digest names.
Undisturbed ==
  /\ \A i \in LogIdx : log[i].ok \/ log[i].op = "check"
  /\ \A d \in Dentries(img) : \A k \in 1..Len(img.streams[d]) :
       img.streams[d][k] # "bad"

\* C3: when two members of a link group in one directory both have a DOS
\* short name, the apply returns InvalidDentry, whichever of the two the walk
\* visits first, also when the group consists of exactly those two.
C3_TwoDosNamesRejected ==
  ((\E g \in LinkGroups : TwoDosNames(g)) /\ Ended /\ Undisturbed)
    => (phase = "done" /\ ret = ERR_INVALID_DENTRY)

(* ------------------------------ C4 ------------------------------------- *)

\* The adapter calls a step adds to the log.
Added == SubSeq(log', Len(log) + 1, Len(log'))

\* The paths recorded in the other members of the link group of d.
RecordedPaths(d) ==
  {extracted_file[o] : o \in img.link_group[d] \ {d}} \ {NoPath}

\* The members of g for which some call op was issued.
MembersWith(g, op) == {m \in g : \E i \in LogIdx : log[i].op = op /\ log[i].d = m}

\* No file is created and no stream is written for a dentry while another
\* member of its link group has a recorded path; a path is recorded exactly
\* when the strdup of the name succeeded; a link group has at most one member
\* created as a file, only that one has streams written, and a finished
\* apply has created exactly one and written its content.
C4_OneCopy ==
  /\ \A i \in LogIdx :
       log[i].op \in {"create_file", "write"} =>
         \A o \in img.link_group[log[i].d] \ {log[i].d} :
           ~DoneBefore("strdup", o, i)
  /\ \A d \in Dentries(img) :
       extracted_file[d] # NoPath <=> DoneBefore("strdup", d, Len(log) + 1)
  /\ \A g \in LinkGroups :
       /\ Cardinality(MembersWith(g, "create_file")) <= 1
       /\ MembersWith(g, "write") \subseteq MembersWith(g, "create_file")
       /\ (phase = "done" /\ ret = OK) =>
            \E m \in g : /\ MembersWith(g, "create_file") = {m}
                         /\ DoneBefore("create_file", m, Len(log) + 1)
                         /\ WrittenBefore(m, Len(log) + 1)

\* A non-directory dentry is being applied, another member of its link group
\* has a recorded path and the process goes on: the recorded path is looked
\* up and, once found, the hard link from the dentry's name to it is issued,
\* and nothing else.
C4_LinkStep ==
  (/\ phase = "pass1" /\ stack # <<>> /\ Top.fn = "do_apply" /\ Top.pc = "link"
   /\ RecordedPaths(Top.d) # {}
   /\ phase' # "aborted")
  => /\ Added # <<>>
     /\ Added[1].op = "pathname_to_inode" /\ Added[1].d = Top.d
     /\ Added[1].arg \in RecordedPaths(Top.d)
     /\ Added[1].ok => /\ Len(Added) = 2
                       /\ Added[2].op = "link" /\ Added[2].d = Top.d
                       /\ Added[2].arg = Added[1].arg
     /\ ~Added[1].ok => Len(Added) = 1
     /\ extracted_file' = extracted_file

C5_ParentFirst ==
  \A i \in LogIdx :
    LET e == log[i]
    IN (e.op \in MadeOps \cup PopulateOps \cup {"set_dos_name"}
        /\ e.d # 0 /\ img.parent[e.d] # 0)
       => DoneBefore("create_dir", img.parent[e.d], i)

\* A dentry of a subdirectory, pre-applied for its DOS name, was hard-linked
\* to a file extracted in another directory.
C5_Witness ==
  /\ Len(stack) = 2 /\ Top.is_hardlink
  /\ log # <<>>
  /\ LET e == log[Len(log)]
     IN /\ e.op = "link" /\ e.ok /\ e.d = Top.d
        /\ img.parent[e.d] # 0
        /\ img.parent[e.arg] # img.parent[e.d]

(* ------------------------------ C6 ------------------------------------- *)

Pass1Ops == MadeOps \cup PopulateOps \cup {"set_dos_name"}

\* C6: no timestamp is written until every operation of pass 1 is over for
\* the whole tree; timestamps are written in post-order, every child before
\* its parent directory, once per dentry, the root included.
C6_TimestampsLast ==
  /\ \A i \in LogIdx :
       log[i].op = "set_times" =>
         /\ \A j \in LogIdx : j > i => log[j].op \notin Pass1Ops
         /\ \A d \in 1..img.n :
              \E j \in 1..(i - 1) : log[j].op \in MadeOps /\ log[j].d = d
                                    /\ log[j].ok
         /\ \A c \in 1..img.n :
              img.parent[c] = log[i].d => DoneBefore("set_times", c, i)
         /\ \A j \in LogIdx :
              (j # i /\ log[j].op = "set_times") => log[j].d # log[i].d
  /\ (phase = "done" /\ ret = OK) =>
       \A d \in Dentries(img) : DoneBefore("set_times", d, Len(log) + 1)

\* An image with a file inside a directory was applied to the end.
C6_Witness ==
  /\ phase = "done" /\ ret = OK
  /\ \E c \in 1..img.n : img.parent[c] # 0
  /\ \E i \in LogIdx : log[i].op = "set_times" /\ log[i].d = 0 /\ log[i].ok

(* ------------------------------ C7 ------------------------------------- *)

\* Dentry d has its name on the target.
IsMade(d) ==
  \E i \in LogIdx : log[i].op \in MadeOps /\ log[i].d = d /\ log[i].ok

\* The log position at which d got its name on the target.
FirstMade(d) ==
  CHOOSE i \in LogIdx :
    /\ log[i].op \in MadeOps /\ log[i].d = d /\ log[i].ok
    /\ \A j \in 1..(i - 1) : ~(log[j].op \in MadeOps /\ log[j].d = d
                               /\ log[j].ok)

\* Child b of a directory is on the target although child a, enumerated
\* before it, is not, or got there later.
OutOfOrder(a, b) ==
  /\ a \in 1..img.n /\ b \in 1..img.n
  /\ img.parent[a] = img.parent[b] /\ a < b
  /\ IsMade(b)
  /\ ~IsMade(a) \/ FirstMade(b) < FirstMade(a)

\* C7 as stated: within one directory the children are created in the
\* enumeration order of the directory, in every image tree, also where a
\* directory holds a link group with a DOS-named member.
C7_EnumerationOrder ==
  \A a, b \in 1..img.n : ~OutOfOrder(a, b)

\* C7 amended: within one directory the children are created in the
\* enumeration order of the directory, except that a child with a DOS short
\* name is created ahead of that order when its link group has another member
\* in the directory that is enumerated before it: it is then created when the
\* first such member is reached.
C7_EnumerationOrderButDosName ==
  \A a, b \in 1..img.n :
    OutOfOrder(a, b) =>
      /\ img.short_name_len[b] # 0
      /\ \E m \in img.link_group[b] \ {b} :
           img.parent[m] = img.parent[b] /\ m <= a

\* A directory was applied in which a DOS-named member of a link group was
\* created ahead of two children enumerated before it, one of them outside
\* the group.
C7_Witness ==
  /\ phase = "done" /\ ret = OK
  /\ \E a, b \in 1..img.n :
       /\ OutOfOrder(a, b)
       /\ \E c \in 1..img.n :
            /\ img.parent[c] = img.parent[a]
            /\ c \notin img.link_group[b]
            /\ IsMade(c)

(* ------------------------------ C8 ------------------------------------- *)

\* Content whose digest differs from the recorded one was put on the target.
MismatchMaterialised ==
  \E i \in LogIdx : /\ log[i].op \in {"write", "set_reparse"}
                    /\ log[i].data = "bad" /\ log[i].ok

\* C8: when the content of a lookup-table entry materialised by apply (an
\* unnamed stream, an alternate data stream, reparse data) does not hash to
\* the recorded digest, apply returns InvalidResourceHash, and never success.
C8_HashMismatchFatal ==
  (phase = "done" /\ MismatchMaterialised) =>
    /\ ret # OK
    /\ (\A i \in LogIdx : log[i].ok) => ret = ERR_INVALID_RESOURCE_HASH

(* ------------------------------ C9 ------------------------------------- *)

\* C9: once an adapter call or a validity check has failed, no create,
\* stream write, link, attribute, security, reparse, short-name or timestamp
\* operation is issued any more, and apply returns an error.
C9_StopsAtFirstFailure ==
  /\ \A i, j \in LogIdx :
       (i < j /\ ~log[i].ok) => log[j].op \notin TargetOps
  /\ (phase = "done" /\ \E i \in LogIdx : ~log[i].ok) => ret # OK

(* ===================== capture: src/src/add_image.c ==================== *)

(* ---------------------- the source file system ------------------------- *)

\* The files on disk that captures read: a directory /a holding a directory
\* x (with a file g), a file k and an empty file e, a file /f with the
\* content of g, a directory /c holding two files whose names differ only in
\* case, and a symbolic link /s to the directory /c.  content is the digest
\* of a file's bytes or of a link's target (0 for a directory), size the
\* number of bytes, target the file a link resolves to.
Disk ==
  << [parent |-> 0, name |-> "a", mode |-> "dir", content |-> 0, size |-> 0,
      target |-> 0],
     [parent |-> 1, name |-> "x", mode |-> "dir", content |-> 0, size |-> 0,
      target |-> 0],
     [parent |-> 2, name |-> "g", mode |-> "reg", content |-> 1, size |-> 1,
      target |-> 0],
     [parent |-> 1, name |-> "k", mode |-> "reg", content |-> 2, size |-> 1,
      target |-> 0],
     [parent |-> 0, name |-> "f", mode |-> "reg", content |-> 1, size |-> 1,
      target |-> 0],
     [parent |-> 0, name |-> "c", mode |-> "dir", content |-> 0, size |-> 0,
      target |-> 0],
     [parent |-> 6, name |-> "n", mode |-> "reg", content |-> 2, size |-> 1,
      target |-> 0],
     [parent |-> 6, name |-> "N", mode |-> "reg", content |-> 2, size |-> 1,
      target |-> 0],
     [parent |-> 0, name |-> "s", mode |-> "lnk", content |-> 3, size |-> 1,
      target |-> 6],
     [parent |-> 1, name |-> "e", mode |-> "reg", content |-> 4, size |-> 0,
      target |-> 0] >>

DiskNodes == 1..Len(Disk)

\* The paths a caller names as fs_source_path.
SourcePaths == {s \in DiskNodes : Disk[s].parent = 0}

\* The file stat() finds at path s: a symbolic link is followed.
Deref(s) == IF Disk[s].mode = "lnk" THEN Disk[s].target ELSE s

\* st_ino of the file at path s: every file has its own, but /a/k and /c/n
\* are two names of one file (hard links of each other).
st_ino(s) == IF s \in {4, 7} THEN 4 ELSE s

\* The entries readdir() finds in the directory at path s.
DirEntries(s) == {c \in DiskNodes : Disk[c].parent = Deref(s)}

\* The canonical target paths callers name (leading and trailing slashes
\* stripped), as their components, in strcmp() order: "", "k", "k/x".
TargetPaths == << <<>>, <<"k">>, <<"k", "x">> >>

\* A struct wimlib_capture_source; target is an index into TargetPaths.
CaptureSources == [src : SourcePaths, target : 1..Len(TargetPaths)]

\* The exclusion lists of the capture configurations callers pass: lists of
\* file name patterns without wildcards.
Configs == {{}, {"k"}, {"f"}}

\* Case folding of a name.
CaseFold(name) == IF name = "N" THEN "n" ELSE name

(* --------------------------- dentry trees ------------------------------ *)

\* A new wim_dentry with its inode: its name, the attributes and the
\* unnamed stream (a digest, 0 for none) of the inode, no parent, and the
\* file on disk it was made for (0 for a filler directory), and no security
\* descriptor (id -1).
NewDentry(name, attributes, lte, node) ==
  [file_name |-> name, attributes |-> attributes, lte |-> lte, parent |-> 0,
   node |-> node, security_id |-> -1, freed |-> FALSE]

\* inode_is_directory(), dentry_is_directory()
inode_is_directory(attributes) ==
  "DIRECTORY" \in attributes /\ "REPARSE_POINT" \notin attributes

\* The children of dentry d in heap h.
ChildrenOf(h, d) == {c \in 1..Len(h) : ~h[c].freed /\ h[c].parent = d}

RECURSIVE TreeOf(_, _)
\* The dentries of the tree rooted at d.
TreeOf(h, d) == {d} \cup UNION {TreeOf(h, c) : c \in ChildrenOf(h, d)}

\* get_dentry_child_with_name(parent, name): 0 if there is none.
get_dentry_child_with_name(h, parent, name) ==
  LET found == {c \in ChildrenOf(h, parent) :
                  CaseFold(h[c].file_name) = CaseFold(name)}
  IN IF found = {} THEN 0 ELSE CHOOSE c \in found : TRUE

\* dentry_add_child(parent, child): the heap afterwards.  The child is not
\* linked when the parent has a child of that name already.
dentry_add_child(h, parent, child) ==
  IF get_dentry_child_with_name(h, parent, h[child].file_name) # 0
  THEN h
  ELSE [h EXCEPT ![child].parent = parent]

(* -------------------------- the lookup table --------------------------- *)

\* __lookup_resource(table, hash): the position of the entry of that digest,
\* 0 if there is none.
__lookup_resource(t, hash) ==
  LET found == {k \in 1..Len(t) : t[k].hash = hash}
  IN IF found = {} THEN 0 ELSE CHOOSE k \in found : \A j \in found : k <= j

\* BindStream inserting a new entry whether or not the lookup hits.
BindStream_AlwaysInsert(t, hash, size) ==
  Append(t, [hash |-> hash, refcnt |-> 1, size |-> size])

\* build_dentry_tree, lines 698-722 (and win32_capture_stream, lines
\* 463-479): the table after a stream of that digest and size was bound.  A
\* hit in the table bumps the refcnt of the entry; a miss inserts a new
\* entry, with refcnt 1 and the size of the stream.
BindStream(t, hash, size) ==
  LET lte == __lookup_resource(t, hash)
  IN IF lte # 0
     THEN [t EXCEPT ![lte].refcnt = t[lte].refcnt + 1]
     ELSE Append(t, [hash |-> hash, refcnt |-> 1, size |-> size])

\* lte_decrement_refcnt(lte, table): the entry loses one reference, and is
\* taken out of the table and freed when it has none left.
lte_decrement_refcnt(t, hash) ==
  LET lte == __lookup_resource(t, hash)
  IN IF lte = 0 THEN t
     ELSE IF t[lte].refcnt > 1
     THEN [t EXCEPT ![lte].refcnt = t[lte].refcnt - 1]
     ELSE SubSeq(t, 1, lte - 1) \o SubSeq(t, lte + 1, Len(t))

RECURSIVE DecrementAll(_, _, _)
\* lte_decrement_refcnt for the stream of each dentry of a sequence in turn.
DecrementAll(h, t, ds) ==
  IF ds = <<>> THEN t
  ELSE DecrementAll(h, lte_decrement_refcnt(t, h[Head(ds)].lte), Tail(ds))

\* free_dentry_tree(root, lookup_table): every dentry of the tree is freed
\* and the entry of its stream loses one reference.
free_dentry_tree(h, t, root) ==
  IF root = 0 THEN [dentries |-> h, table |-> t]
  ELSE LET tree == TreeOf(h, root)
       IN [dentries |-> [d \in 1..Len(h) |->
                           IF d \in tree THEN [h[d] EXCEPT !.freed = TRUE]
                           ELSE h[d]],
           table |-> DecrementAll(h, t, SortedSeq({d \in tree :
                                                    h[d].lte # 0}))]

RECURSIVE FreeTrees(_, _, _)
\* free_dentry_tree of each root of a sequence in turn.
FreeTrees(h, t, roots) ==
  IF roots = <<>> THEN [dentries |-> h, table |-> t]
  ELSE LET r == free_dentry_tree(h, t, Head(roots))
       IN FreeTrees(r.dentries, r.table, Tail(roots))

(* ----------------------- overlay and attach ---------------------------- *)

RECURSIVE MoveChildren(_, _, _)
\* MoveChildren moving every child to target without looking for its name.
MoveChildren_Unchecked(h, target, cs) ==
  [dentries |-> [d \in 1..Len(h) |->
                   IF \E k \in 1..Len(cs) : cs[k] = d
                   THEN [h[d] EXCEPT !.parent = target] ELSE h[d]],
   ret |-> OK]

\* The loop of do_overlay (lines 1311-1324) over the children cs of the
\* branch: each is unlinked and added to target; the first one target has a
\* name for already goes back under the branch and ends the loop.
MoveChildren(h, target, cs) ==
  IF cs = <<>> THEN [dentries |-> h, ret |-> OK]
  ELSE IF get_dentry_child_with_name(h, target, h[Head(cs)].file_name) # 0
  THEN [dentries |-> h, ret |-> ERR_INVALID_OVERLAY]
  ELSE MoveChildren([h EXCEPT ![Head(cs)].parent = target], target, Tail(cs))

\* do_overlay without the test that target is a directory.
do_overlay_AnyTarget(h, target, branch) ==
  MoveChildren(h, target, SortedSeq(ChildrenOf(h, branch)))

\* do_overlay(target, branch)
do_overlay(h, target, branch) ==
  IF ~inode_is_directory(h[target].attributes)
  THEN [dentries |-> h, ret |-> ERR_INVALID_OVERLAY]
  ELSE MoveChildren(h, target, SortedSeq(ChildrenOf(h, branch)))

\* new_filler_directory giving the directory a stream.
new_filler_directory_WithStream(name) == NewDentry(name, {"DIRECTORY"}, 1, 0)

\* new_filler_directory(name)
new_filler_directory(name) == NewDentry(name, {"DIRECTORY"}, 0, 0)

RECURSIVE WalkTargetPath(_, _, _, _, _)
\* attach_branch, lines 1369-1397: the walk from parent along the components
\* of the target path still ahead, and the placing of the branch at the last.
\* allocs is the number of allocations that still succeed, -1 if all do.
WalkTargetPath(h, parent, path, branch, allocs) ==
  IF Len(path) = 1
  THEN LET target == get_dentry_child_with_name(h, parent,
                                                h[branch].file_name)
       IN IF target # 0 THEN do_overlay(h, target, branch)
          ELSE [dentries |-> dentry_add_child(h, parent, branch), ret |-> OK]
  ELSE LET dentry == get_dentry_child_with_name(h, parent, Head(path))
       IN IF dentry # 0
          THEN WalkTargetPath(h, dentry, Tail(path), branch, allocs)
          ELSE IF allocs = 0
          THEN [dentries |-> h, ret |-> ERR_NOMEM]
          ELSE LET h2 == Append(h, new_filler_directory(Head(path)))
                   h3 == dentry_add_child(h2, parent, Len(h2))
               IN WalkTargetPath(h3, Len(h3), Tail(path), branch, allocs - 1)

\* attach_branch making the branch the root whenever the target path is
\* empty.
attach_branch_ReplaceRoot(h, root, branch, path, allocs) ==
  IF path = <<>>
  THEN [dentries |-> h, root |-> branch, ret |-> OK]
  ELSE IF root = 0
  THEN IF allocs = 0
       THEN [dentries |-> h, root |-> 0, ret |-> ERR_NOMEM]
       ELSE LET h2 == Append(h, new_filler_directory(""))
                r == WalkTargetPath(h2, Len(h2), path, branch, allocs - 1)
            IN [dentries |-> r.dentries, root |-> Len(h2), ret |-> r.ret]
  ELSE LET r == WalkTargetPath(h, root, path, branch, allocs)
       IN [dentries |-> r.dentries, root |-> root, ret |-> r.ret]

\* attach_branch(root_p, branch, target_path): the heap, *root_p and the
\* result afterwards.
attach_branch(h, root, branch, path, allocs) ==
  IF path = <<>>
  THEN IF root # 0
       THEN LET r == do_overlay(h, root, branch)
            IN [dentries |-> r.dentries, root |-> root, ret |-> r.ret]
       ELSE [dentries |-> h, root |-> branch, ret |-> OK]
  ELSE IF root = 0
  THEN IF allocs = 0
       THEN [dentries |-> h, root |-> 0, ret |-> ERR_NOMEM]
       ELSE LET h2 == Append(h, new_filler_directory(""))
                r == WalkTargetPath(h2, Len(h2), path, branch, allocs - 1)
            IN [dentries |-> r.dentries, root |-> Len(h2), ret |-> r.ret]
  ELSE LET r == WalkTargetPath(h, root, path, branch, allocs)
       IN [dentries |-> r.dentries, root |-> root, ret |-> r.ret]

(* ------------------------- build_dentry_tree --------------------------- *)

\* exclude_path(path, config, true) for the file of disk node s: some
\* pattern of the exclusion list matches its base name, case folded.
exclude_path(s, config) ==
  \E pat \in config : CaseFold(pat) = CaseFold(Disk[s].name)

\* The part of build_dentry_tree for the file at path s that precedes the
\* reading of a directory (lines 573-738, 773-815 and, in a build for
\* Windows, 817-923), as the set of its outcomes when fl failures may still
\* be injected: the heap and the lookup table afterwards, the result, the
\* dentry made (0 for none), whether the directory is still to be read, and
\* the failures injected.  A dentry made before a failure is freed at out
\* (line 936) with no stream bound to it.
BuildEntry(h, t, s, root_flag, config, fl) ==
  LET n == Disk[s]
      new == Len(h) + 1
      to_dir == n.target # 0 /\ Disk[n.target].mode = "dir"
      Fails(r, inj) ==
        [dentries |-> h, table |-> t, ret |-> r, dentry |-> 0,
         readdir |-> FALSE, inj |-> inj]
      Injected(rs) == IF fl > 0 THEN {Fails(r, 1) : r \in rs} ELSE {}
      Made(attributes, hash, readdir, inj) ==
        [dentries |-> Append(h, NewDentry(n.name, attributes, hash, s)),
         table |-> IF hash = 0 THEN t ELSE BindStream(t, hash, n.size),
         ret |-> OK, dentry |-> new, readdir |-> readdir, inj |-> inj]
  IN IF exclude_path(s, config)
     THEN {Fails(IF root_flag THEN ERR_INVALID_CAPTURE_CONFIG ELSE OK, 0)}
     ELSE IF win32
     THEN Injected({ERR_OPEN, ERR_STAT, ERR_NOMEM, ERR_READ})
          \cup {IF n.mode = "dir" THEN Made({"DIRECTORY"}, 0, TRUE, 0)
                ELSE IF n.mode = "lnk"
                THEN Made({"REPARSE_POINT"}
                          \cup (IF to_dir THEN {"DIRECTORY"} ELSE {}),
                          n.content, FALSE, 0)
                ELSE Made({"NORMAL"}, n.content, FALSE, 0)}
     ELSE IF root_flag /\ n.mode # "dir" /\ ~to_dir
     THEN Injected({ERR_MINUS_ONE, ERR_STAT}) \cup {Fails(ERR_NOTDIR, 0)}
     ELSE IF root_flag /\ n.mode # "dir"
     THEN Injected({ERR_MINUS_ONE, ERR_STAT, ERR_NOMEM, ERR_OPEN})
          \cup {Made({"DIRECTORY"}, 0, TRUE, 0)}
     ELSE IF n.mode \notin {"reg", "dir", "lnk"}
     THEN Injected({ERR_MINUS_ONE}) \cup {Fails(ERR_SPECIAL_FILE, 0)}
     ELSE IF n.mode = "reg"
     THEN Injected({ERR_MINUS_ONE, ERR_NOMEM}
                   \cup (IF n.size # 0 THEN {ERR_READ} ELSE {}))
          \cup {Made({"NORMAL"}, IF n.size = 0 THEN 0 ELSE n.content,
                     FALSE, 0)}
     ELSE IF n.mode = "dir"
     THEN Injected({ERR_MINUS_ONE, ERR_NOMEM, ERR_OPEN})
          \cup {Made({"DIRECTORY"}, 0, TRUE, 0)}
     ELSE Injected({ERR_MINUS_ONE, ERR_NOMEM, ERR_READLINK})
          \cup {Made({"REPARSE_POINT"}
                     \cup (IF to_dir THEN {"DIRECTORY"} ELSE {}),
                     n.content, FALSE, 0)}
          \cup (IF fl > 0 /\ to_dir
                THEN {Made({"REPARSE_POINT"}, n.content, FALSE, 1)}
                ELSE {})

\* A build_dentry_tree call that is reading its directory: the dentry of
\* the directory and the entries readdir() has still to deliver.
BuildFrame(dentry, s) == [dentry |-> dentry, todo |-> DirEntries(s)]

\* The roots of the trees the calls in progress have built, innermost first.
FrameRoots ==
  [k \in 1..Len(frames) |-> frames[Len(frames) + 1 - k].dentry]

(* -------------------- wimlib_add_image_multisource --------------------- *)

\* sort_sources(): the orders qsort() may leave the sources in, sorted by
\* target path; sources with equal target paths end in either order.
sort_sources(srcs) ==
  {q \in [1..Len(srcs) -> CaptureSources] :
     /\ \E f \in [1..Len(srcs) -> 1..Len(srcs)] :
          /\ \A a, b \in 1..Len(srcs) : a # b => f[a] # f[b]
          /\ \A a \in 1..Len(srcs) : q[a] = srcs[f[a]]
     /\ \A a, b \in 1..Len(q) : a < b => q[a].target <= q[b].target}

\* The call returns r: out (lines 1588-1589).
Returned(c, r) ==
  [NoCall EXCEPT !.ret = r, !.sources = c.sources, !.config = c.config,
                 !.before = c.before]

\* out_free_dentry_tree (lines 1582-1589) once the trees of roots are freed:
\* the tree of root_dentry is freed and the call returns r.
FreeAndReturn(h, t, roots, r) ==
  LET f == FreeTrees(h, t, roots \o <<call.root_dentry>>)
  IN /\ dentries' = f.dentries
     /\ lookup_table' = f.table
     /\ frames' = <<>>
     /\ call' = Returned(call, r)

\* What progress_func is called with before a source is scanned (lines
\* 1506-1511) and after its branch is attached (lines 1544-1545): nothing
\* when the caller passed no progress function.
ScanBegin(src) ==
  IF progress = "none" THEN <<>>
  ELSE <<[msg |-> "SCAN_BEGIN", source |-> src.src,
          wim_target_path |-> src.target]>>

\* No SCAN_END at all.
ScanEnd_Never(src) == <<>>

ScanEnd(src) ==
  IF progress = "none" THEN <<>>
  ELSE <<[msg |-> "SCAN_END", source |-> src.src,
          wim_target_path |-> src.target]>>

\* SCAN_DENTRY sent whatever the flags are.
ScanDentry_Always(s, root_flag, config) ==
  IF exclude_path(s, config) /\ root_flag THEN <<>>
  ELSE <<[msg |-> "SCAN_DENTRY", cur_path |-> s,
          excluded |-> exclude_path(s, config)]>>

\* What progress_func is called with when build_dentry_tree is entered for
\* the file at path s (lines 573-597): SCAN_DENTRY, and only when the caller
\* passed WIMLIB_ADD_IMAGE_FLAG_VERBOSE together with a progress function;
\* nothing when the root of the image is excluded.
ScanDentry(s, root_flag, config) ==
  IF progress # "verbose" \/ (exclude_path(s, config) /\ root_flag) THEN <<>>
  ELSE <<[msg |-> "SCAN_DENTRY", cur_path |-> s,
          excluded |-> exclude_path(s, config)]>>

\* wimlib_add_image_multisource up to its loop over the sources (lines
\* 1422-1497): the configuration is parsed, the security data allocated, the
\* sources sorted; without sources the image is one filler directory.
AddImageMultisource ==
  /\ call.pc = "idle" /\ work > 0
  /\ \E k \in 0..work :
     \E srcs \in [1..k -> CaptureSources] :
     \E config \in Configs :
     \E sorted \in sort_sources(srcs) :
     \E nomem \in IF cfaults > 0 THEN BOOLEAN ELSE {FALSE} :
       LET begun == [pc |-> "source", sources |-> sorted, i |-> 1,
                     root_dentry |-> 0, branch |-> 0, config |-> config,
                     ret |-> OK,
                     before |-> [lookup_table |-> lookup_table,
                                 image_count |-> Len(image_metadata),
                                 cfaults |-> cfaults]]
       IN /\ work' = work - (IF k = 0 THEN 1 ELSE k)
          /\ cfaults' = cfaults - (IF nomem THEN 1 ELSE 0)
          /\ IF nomem /\ k # 0
             THEN call' = Returned(begun, ERR_NOMEM) /\ dentries' = dentries
             ELSE IF nomem
             THEN \/ call' = Returned(begun, ERR_NOMEM)
                     /\ dentries' = dentries
                  \/ call' = Returned(begun, OK) /\ dentries' = dentries
             ELSE IF k = 0
             THEN /\ dentries' = Append(dentries, new_filler_directory(""))
                  /\ call' = [begun EXCEPT !.pc = "finish", !.i = 0,
                                !.root_dentry = Len(dentries) + 1]
             ELSE /\ dentries' = dentries
                  /\ call' = begun
  /\ events' = <<>>
  /\ UNCHANGED <<lookup_table, image_metadata, frames>>
  /\ UNCHANGED <<win32, progress, applyVars, configVars, reparseVars>>

\* One turn of the loop up to the reading of a directory (lines 1498-1528):
\* the prefix of the configuration is set and build_dentry_tree is called
\* for the source.
ScanSource ==
  /\ call.pc = "source"
  /\ LET src == call.sources[call.i]
         root_flag == TargetPaths[src.target] = <<>>
     IN \/ /\ cfaults > 0
           /\ cfaults' = cfaults - 1
           /\ events' = events \o ScanBegin(src)
           /\ FreeAndReturn(dentries, lookup_table, <<>>, ERR_NOMEM)
        \/ \E o \in BuildEntry(dentries, lookup_table, src.src, root_flag,
                               call.config, cfaults) :
             /\ cfaults' = cfaults - o.inj
             /\ events' = events \o ScanBegin(src)
                                 \o ScanDentry(src.src, root_flag, call.config)
             /\ IF o.ret # OK
                THEN FreeAndReturn(o.dentries, o.table, <<>>, o.ret)
                ELSE /\ dentries' = o.dentries
                     /\ lookup_table' = o.table
                     /\ IF o.readdir
                        THEN /\ frames' = <<BuildFrame(o.dentry, src.src)>>
                             /\ call' = [call EXCEPT !.pc = "build"]
                        ELSE /\ frames' = <<>>
                             /\ call' = [call EXCEPT !.pc = "attach",
                                                     !.branch = o.dentry]
  /\ UNCHANGED <<image_metadata, work>>
  /\ UNCHANGED <<win32, progress, applyVars, configVars, reparseVars>>

\* build_dentry_tree, one turn of the loop over a directory (lines 748-771):
\* readdir() delivers an entry, build_dentry_tree is called for it, and the
\* dentry it made, if any, is added to the directory.  After a failure every
\* call in progress frees its tree and returns (lines 767-768, 932-937).
BuildDentryTreeChild ==
  /\ call.pc = "build"
  /\ LET top == frames[Len(frames)]
     IN /\ top.todo # {}
        /\ \/ /\ cfaults > 0
              /\ cfaults' = cfaults - 1
              /\ events' = events
              /\ FreeAndReturn(dentries, lookup_table, FrameRoots, ERR_READ)
           \/ \E s \in top.todo :
              \E o \in BuildEntry(dentries, lookup_table, s, FALSE,
                                  call.config, cfaults) :
                LET rest == [frames EXCEPT ![Len(frames)].todo = top.todo \ {s}]
                IN /\ cfaults' = cfaults - o.inj
                   /\ events' = events \o ScanDentry(s, FALSE, call.config)
                   /\ IF o.ret # OK
                      THEN FreeAndReturn(o.dentries, o.table, FrameRoots,
                                         o.ret)
                      ELSE /\ lookup_table' = o.table
                           /\ call' = call
                           /\ IF o.readdir
                              THEN /\ dentries' = o.dentries
                                   /\ frames' =
                                        Append(rest, BuildFrame(o.dentry, s))
                              ELSE /\ dentries' =
                                        IF o.dentry = 0 THEN o.dentries
                                        ELSE dentry_add_child(o.dentries,
                                                              top.dentry,
                                                              o.dentry)
                                   /\ frames' = rest
  /\ UNCHANGED <<image_metadata, work>>
  /\ UNCHANGED <<win32, progress, applyVars, configVars, reparseVars>>

\* build_dentry_tree, the end of a directory (lines 758-759, 772, 932-934):
\* the call returns the dentry of the directory, which its caller adds to
\* the directory it is reading, or which becomes the branch of the source.
BuildDentryTreeReturn ==
  /\ call.pc = "build"
  /\ LET top == frames[Len(frames)]
         callers == SubSeq(frames, 1, Len(frames) - 1)
     IN /\ top.todo = {}
        /\ \/ /\ cfaults > 0
              /\ cfaults' = cfaults - 1
              /\ FreeAndReturn(dentries, lookup_table, FrameRoots, ERR_READ)
           \/ /\ cfaults' = cfaults
              /\ frames' = callers
              /\ lookup_table' = lookup_table
              /\ IF callers = <<>>
                 THEN /\ dentries' = dentries
                      /\ call' = [call EXCEPT !.pc = "attach",
                                              !.branch = top.dentry]
                 ELSE /\ dentries' =
                           dentry_add_child(dentries,
                                            callers[Len(callers)].dentry,
                                            top.dentry)
                      /\ call' = call
  /\ UNCHANGED <<image_metadata, work, events>>
  /\ UNCHANGED <<win32, progress, applyVars, configVars, reparseVars>>

\* The rest of a turn of the loop (lines 1529-1546): the branch, if there is
\* one, takes the base name of the target path and is attached to the image.
\* A failure here frees the branch and then the image (out_free_branch).
AttachBranch ==
  /\ call.pc = "attach"
  /\ LET src == call.sources[call.i]
         path == TargetPaths[src.target]
         name == IF path = <<>> THEN "" ELSE path[Len(path)]
         next == [call EXCEPT !.branch = 0, !.i = call.i + 1,
                              !.pc = IF call.i = Len(call.sources)
                                     THEN "finish" ELSE "source"]
     IN IF call.branch = 0
        THEN /\ call' = next
             /\ events' = events \o ScanEnd(src)
             /\ UNCHANGED <<dentries, lookup_table, cfaults>>
        ELSE \/ /\ cfaults > 0
                /\ cfaults' = cfaults - 1
                /\ events' = events
                /\ FreeAndReturn(dentries, lookup_table, <<call.branch>>,
                                 ERR_NOMEM)
             \/ \E allocs \in {-1} \cup (IF cfaults > 0
                                         THEN 0..(Len(path) - 1) ELSE {}) :
                  LET named == [dentries EXCEPT
                                  ![call.branch].file_name = name]
                      r == attach_branch(named, call.root_dentry, call.branch,
                                         path, allocs)
                  IN /\ allocs # -1 => r.ret = ERR_NOMEM
                     /\ cfaults' = cfaults - (IF allocs = -1 THEN 0 ELSE 1)
                     /\ IF r.ret # OK
                        THEN LET f == FreeTrees(r.dentries, lookup_table,
                                                <<call.branch, r.root>>)
                             IN /\ dentries' = f.dentries
                                /\ lookup_table' = f.table
                                /\ call' = Returned(call, r.ret)
                                /\ events' = events
                        ELSE /\ dentries' = r.dentries
                             /\ lookup_table' = lookup_table
                             /\ call' = [next EXCEPT !.root_dentry = r.root]
                             /\ events' = events \o ScanEnd(src)
  /\ UNCHANGED <<image_metadata, frames, work>>
  /\ UNCHANGED <<win32, progress, applyVars, configVars, reparseVars>>

\* add_new_dentry_tree when its allocations succeed: the array of image
\* metadata is copied into a longer one, whose last slot gets the root, the
\* security data allocated for this call, the modified flag, and a new
\* lookup table entry with the metadata flag and a random digest, which is
\* inserted in w->lookup_table.  The model keeps that entry with its image:
\* w->lookup_table is lookup_table together with the metadata entries of
\* image_metadata that are marked inserted.
add_new_dentry_tree(imds, root_dentry) ==
  Append(imds,
         [root_dentry |-> root_dentry,
          metadata_lte |-> [hash |-> <<"random", Len(imds) + 1>>,
                            flags |-> {"METADATA"},
                            inserted |-> TRUE],
          security_data |-> [sd |-> Len(imds) + 1, total_length |-> 8,
                             refcnt |-> 1],
          inode_list |-> {},
          modified |-> 1])

\* i_ino of the inode of dentry d: st_ino of the file it was captured from
\* (lines 662-666, 878), 0 for a filler directory (line 1290).
i_ino(h, d) == IF h[d].node = 0 THEN 0 ELSE st_ino(h[d].node)

\* Every dentry a hard-link group of its own.
dentry_tree_fix_inodes_NoLinks(h, root) ==
  IF root = 0 THEN {} ELSE {{d} : d \in TreeOf(h, root)}

\* dentry_tree_fix_inodes(root_dentry, &imd->inode_list): the hard-link
\* groups of the image.  It is handed the root of the finished tree and
\* groups its dentries by i_ino; an inode with i_ino 0 stays alone.
dentry_tree_fix_inodes(h, root) ==
  IF root = 0 THEN {}
  ELSE LET tree == TreeOf(h, root)
       IN {{e \in tree : \/ e = d
                         \/ i_ino(h, d) # 0 /\ i_ino(h, e) = i_ino(h, d)} :
             d \in tree}

\* add_new_dentry_tree and dentry_tree_fix_inodes, one after the other.
AddImage(imds, h, root) ==
  LET added == add_new_dentry_tree(imds, root)
  IN [added EXCEPT ![Len(added)].inode_list = dentry_tree_fix_inodes(h, root)]

\* The end of wimlib_add_image_multisource (lines 1549-1579) for an image
\* that has a root: the full paths are computed, add_new_dentry_tree()
\* appends the image with its metadata resource, and the inodes and the XML
\* data follow.  Each of these steps may fail for lack of memory; the tree
\* is then freed (out_free_dentry_tree, or destroy_image_metadata after the
\* image was appended) and no image is left.
FinishAddImage ==
  /\ call.pc = "finish" /\ call.root_dentry # 0
  /\ \/ /\ cfaults > 0
        /\ cfaults' = cfaults - 1
        /\ FreeAndReturn(dentries, lookup_table, <<>>, ERR_NOMEM)
        /\ image_metadata' = image_metadata
     \/ /\ image_metadata' =
             AddImage(image_metadata, dentries, call.root_dentry)
        /\ call' = Returned(call, OK)
        /\ UNCHANGED <<dentries, lookup_table, cfaults>>
  /\ UNCHANGED <<frames, work, events>>
  /\ UNCHANGED <<win32, progress, applyVars, configVars, reparseVars>>

\* The end of wimlib_add_image_multisource when every source was excluded
\* and no root was made: for_dentry_in_tree() and add_new_dentry_tree() are
\* given a null root (lines 1550, 1554, 80).  The call dereferences it and
\* the process ends, or the assertion is compiled out and the walk passes
\* over it and an image without a root is appended.
FinishWithoutRoot ==
  /\ call.pc = "finish" /\ call.root_dentry = 0
  /\ \/ /\ call' = [call EXCEPT !.pc = "crashed"]
        /\ image_metadata' = image_metadata
     \/ /\ image_metadata' = AddImage(image_metadata, dentries, 0)
        /\ call' = Returned(call, OK)
  /\ UNCHANGED <<dentries, lookup_table, frames, cfaults, work, events>>
  /\ UNCHANGED <<win32, progress, applyVars, configVars, reparseVars>>

\* A WIM without images and the capture calls a process makes on it, with at
\* most MaxSources sources in all and at most MaxCaptureFaults failures of
\* the system calls and allocations.  Nothing is being applied.
InitCapture ==
  /\ EmptyWim
  /\ cfaults \in 0..MaxCaptureFaults
  /\ work = MaxSources
  /\ win32 \in BOOLEAN
  /\ NoProgress
  /\ img = MkImage(0, <<>>, {}, {}, {}, FALSE, 0, FALSE, <<"none">>)
  /\ phase = "done"
  /\ todo = <<>>
  /\ stack = <<>>
  /\ extracted_file = [d \in {0} |-> NoPath]
  /\ vol = [d \in {0} |-> 0]
  /\ log = <<>>
  /\ ret = OK
  /\ faults = 0
  /\ NoConfig

NextCapture ==
  \/ AddImageMultisource
  \/ ScanSource
  \/ BuildDentryTreeChild
  \/ BuildDentryTreeReturn
  \/ AttachBranch
  \/ FinishAddImage
  \/ FinishWithoutRoot

SpecCapture == InitCapture /\ [][NextCapture]_vars

(* ------------------- C10: reference counts of streams ------------------ *)

\* The dentries of the trees of the images of the WIM.
InImages ==
  UNION {TreeOf(dentries, image_metadata[k].root_dentry) :
           k \in {j \in 1..Len(image_metadata) :
                    image_metadata[j].root_dentry # 0}}

\* The dentries that were made and not freed and have a stream.
HoldingReference ==
  {d \in 1..Len(dentries) : ~dentries[d].freed /\ dentries[d].lte # 0}

\* C10: whenever no capture call is in progress, after calls that succeeded
\* or failed, the reference count of every entry of the lookup table is the
\* number of streams of inodes reachable from the roots of the images that
\* are bound to it, and no dentry outside the trees of the images holds a
\* reference.
C10_RefcountsMatch ==
  call.pc = "idle" =>
    /\ \A k \in 1..Len(lookup_table) :
         lookup_table[k].refcnt =
           Cardinality({d \in InImages :
                          dentries[d].lte = lookup_table[k].hash})
    /\ \A d \in InImages :
         dentries[d].lte # 0 =>
           __lookup_resource(lookup_table, dentries[d].lte) # 0
    /\ HoldingReference \subseteq InImages

(* -------------------- C11: one entry for each digest ------------------- *)

\* The dentries made and not freed whose stream has digest x.
Holders(x) == {d \in HoldingReference : dentries[d].lte = x}

\* C11: at every moment of every capture, two entries of the lookup table
\* never have the same digest, and the refcnt of the entry of a digest is the
\* number k >= 1 of streams of that digest that were captured (in one or in
\* several sources or calls) and not freed again; every such stream has its
\* entry.
C11_OneEntryPerDigest ==
  /\ \A j, k \in 1..Len(lookup_table) :
       j # k => lookup_table[j].hash # lookup_table[k].hash
  /\ \A k \in 1..Len(lookup_table) :
       /\ lookup_table[k].refcnt >= 1
       /\ lookup_table[k].refcnt = Cardinality(Holders(lookup_table[k].hash))
  /\ \A d \in HoldingReference :
       __lookup_resource(lookup_table, dentries[d].lte) # 0

\* Two calls have succeeded, and a file of the image of the first and a file
\* of the image of the second have the same digest: its entry has refcnt 2.
C11_Witness ==
  /\ call.pc = "idle" /\ call.ret = OK
  /\ Len(image_metadata) = 2
  /\ \E k \in 1..Len(lookup_table) :
       /\ lookup_table[k].refcnt = 2
       /\ \E a \in TreeOf(dentries, image_metadata[1].root_dentry) :
          \E b \in TreeOf(dentries, image_metadata[2].root_dentry) :
            /\ dentries[a].lte = lookup_table[k].hash
            /\ dentries[b].lte = lookup_table[k].hash

(* --------------------- C12: no entry for empty streams ----------------- *)

\* C12: capture never leaves an entry of size 0 in the lookup table, in a
\* build for POSIX and in a build for Windows alike: an empty file is
\* captured without a stream reference.
C12_NoEmptyStreamEntry ==
  \A k \in 1..Len(lookup_table) : lookup_table[k].size # 0

(* ---------------- C13: a failed call restores the table ---------------- *)

\* The entries of lookup table t, whatever their order.
Entries(t) == {t[k] : k \in 1..Len(t)}

\* C13: when a wimlib_add_image_multisource call has failed, for whatever
\* reason, the lookup table holds exactly the entries it held when the call
\* began, each with the refcnt it had.
C13_FailureRestoresTable ==
  (call.pc = "idle" /\ call.ret # OK) =>
    /\ Entries(lookup_table) = Entries(call.before.lookup_table)
    /\ Len(lookup_table) = Len(call.before.lookup_table)

(* ------------------ C14: the parent is a directory --------------------- *)

\* C14: whenever no call is in progress, every dentry of an image tree that
\* has a parent has one whose inode has the DIRECTORY attribute, whatever
\* the sources and the target paths of the calls that made the images.
C14_ParentIsDirectory ==
  call.pc = "idle" =>
    \A d \in InImages :
      dentries[d].parent # 0 =>
        "DIRECTORY" \in dentries[dentries[d].parent].attributes

(* ------------------ C15: siblings have distinct names ------------------ *)

\* The dentries that were made and not freed.
Live == {d \in 1..Len(dentries) : ~dentries[d].freed}

\* C15: at every moment of every capture, in the images and in the trees
\* being built alike, two dentries with the same parent have names that
\* differ when case is folded; reading a directory, making filler
\* directories and overlays that succeed or fail all keep it so.
C15_SiblingsDistinct ==
  \A a, b \in Live :
    (a # b /\ dentries[a].parent # 0
           /\ dentries[a].parent = dentries[b].parent) =>
      CaseFold(dentries[a].file_name) # CaseFold(dentries[b].file_name)

\* A call has succeeded that overlaid one source on another: a directory of
\* the image holds files read from two different directories on disk.
C15_Witness ==
  /\ call.pc = "idle" /\ call.ret = OK
  /\ \E a, b \in InImages :
       /\ dentries[a].parent # 0
       /\ dentries[a].parent = dentries[b].parent
       /\ dentries[a].node # 0 /\ dentries[b].node # 0
       /\ Disk[dentries[a].node].parent # 0
       /\ Disk[dentries[b].node].parent # 0
       /\ Disk[dentries[a].node].parent # Disk[dentries[b].node].parent

(* ---------------- C16: directories have no unnamed stream -------------- *)

\* C16 as stated: every inode that capture gave the DIRECTORY attribute has
\* no unnamed stream, a symbolic link to a directory included.
C16_DirectoryHasNoStream ==
  \A d \in Live :
    "DIRECTORY" \in dentries[d].attributes => dentries[d].lte = 0

\* C16 amended: every inode that capture gave the DIRECTORY attribute and
\* not the REPARSE_POINT attribute (a captured directory, a filler
\* directory) has no unnamed stream.
C16_PlainDirectoryHasNoStream ==
  \A d \in Live :
    inode_is_directory(dentries[d].attributes) => dentries[d].lte = 0

\* A call has succeeded whose image holds a filler directory, a captured
\* directory and a symbolic link to a directory, which has the DIRECTORY
\* attribute and a stream.
C16_Witness ==
  /\ call.pc = "idle" /\ call.ret = OK
  /\ \E f, c, l \in InImages :
       /\ dentries[f].node = 0
       /\ dentries[c].node # 0 /\ dentries[c].attributes = {"DIRECTORY"}
       /\ dentries[l].attributes = {"DIRECTORY", "REPARSE_POINT"}
       /\ dentries[l].lte # 0

(* ------------------------ C17: failed overlays ------------------------- *)

\* The heap once the branch of the source in hand has the base name of its
\* target path (set_dentry_name, lines 1534-1535).
NamedBranch ==
  LET path == TargetPaths[call.sources[call.i].target]
  IN [dentries EXCEPT ![call.branch].file_name =
        IF path = <<>> THEN "" ELSE path[Len(path)]]

RECURSIVE WalkExisting(_, _, _)
\* The dentry the components of path lead to from parent, 0 if one of them
\* names no dentry.
WalkExisting(h, parent, path) ==
  IF path = <<>> \/ parent = 0 THEN parent
  ELSE WalkExisting(h, get_dentry_child_with_name(h, parent, Head(path)),
                    Tail(path))

\* The dentry that exists at the target path of the source in hand, on
\* which attach_branch will overlay its branch; 0 if there is none.
OverlayTarget ==
  IF call.pc # "attach" \/ call.branch = 0 THEN 0
  ELSE WalkExisting(dentries, call.root_dentry,
                    TargetPaths[call.sources[call.i].target])

\* The children of the branch in hand whose name a child of dentry target
\* has already.
Colliding(target) ==
  {c \in ChildrenOf(dentries, call.branch) :
     get_dentry_child_with_name(dentries, target,
                                dentries[c].file_name) # 0}

\* The overlay about to be made is one that has to fail.
OverlayMustFail ==
  /\ OverlayTarget # 0
  /\ \/ ~inode_is_directory(dentries[OverlayTarget].attributes)
     \/ Colliding(OverlayTarget) # {}

\* do_overlay returns INVALID_OVERLAY for such an overlay and leaves every
\* colliding child under the branch.
C17_PutBack ==
  OverlayMustFail =>
    LET r == do_overlay(NamedBranch, OverlayTarget, call.branch)
    IN /\ r.ret = ERR_INVALID_OVERLAY
       /\ inode_is_directory(dentries[OverlayTarget].attributes) =>
            \A c \in Colliding(OverlayTarget) :
              r.dentries[c].parent = call.branch

\* The step that makes such an overlay, no allocation failing in it, ends
\* the call with INVALID_OVERLAY and with the images the WIM had before it.
C17_Step ==
  (OverlayMustFail /\ cfaults' = cfaults) =>
    /\ call'.pc = "idle"
    /\ call'.ret = ERR_INVALID_OVERLAY
    /\ image_metadata' = image_metadata
    /\ Len(image_metadata') = call.before.image_count

\* C17: an overlay on a target that is not a directory, or of a branch with
\* a child whose case-folded name a child of the target has, fails with
\* INVALID_OVERLAY and leaves the colliding child under the branch; the
\* whole call then fails with INVALID_OVERLAY and appends no image.
C17_OverlayFailure == []C17_PutBack /\ [][C17_Step]_vars

\* A call has failed with INVALID_OVERLAY, without any injected failure and
\* without an image appended, on a child of its branch that had the name of
\* a child of the target.
C17_Witness ==
  /\ call.pc = "idle" /\ call.ret = ERR_INVALID_OVERLAY
  /\ cfaults = call.before.cfaults
  /\ Len(image_metadata) = call.before.image_count
  /\ \E a, b \in 1..Len(dentries) :
       /\ dentries[a].freed /\ dentries[b].freed
       /\ dentries[a].parent # 0 /\ dentries[b].parent # 0
       /\ dentries[a].parent # dentries[b].parent
       /\ dentries[a].node = dentries[b].node

(* ------------- C18: a branch at a path that exists already ------------- *)

\* The call that has returned had two directories as sources, the first
\* with target path k and the second with target path k/x, neither excluded
\* by the configuration, and the first holds an entry named x that is not
\* excluded either.
TargetExistsInEarlierSource ==
  /\ call.pc = "idle"
  /\ Len(call.sources) = 2
  /\ TargetPaths[call.sources[1].target] = <<"k">>
  /\ TargetPaths[call.sources[2].target] = <<"k", "x">>
  /\ \A i \in 1..2 :
       /\ Disk[call.sources[i].src].mode = "dir"
       /\ ~exclude_path(call.sources[i].src, call.config)
  /\ \E c \in DirEntries(call.sources[1].src) :
       Disk[c].name = "x" /\ ~exclude_path(c, call.config)

\* C18: a call with a source at target path k and a source at target path
\* k/x fails with INVALID_OVERLAY when the tree captured from the first
\* source has a child x already; at the least it does not succeed.
C18_ExistingChildRejected ==
  TargetExistsInEarlierSource => call.ret # OK

(* ------------------ C19: the same source given twice ------------------- *)

\* The call that has returned was given the same directory twice, with the
\* same target path, the directory is not excluded by the configuration, and
\* no system call or allocation failed during the call.
SameSourceTwice ==
  /\ call.pc = "idle"
  /\ Len(call.sources) = 2
  /\ call.sources[1] = call.sources[2]
  /\ Disk[call.sources[1].src].mode = "dir"
  /\ ~exclude_path(call.sources[1].src, call.config)
  /\ cfaults = call.before.cfaults

\* C19: a call that is given the same source twice with the same target
\* path succeeds (and overlays the two captures into one branch).
C19_SameSourceTwiceSucceeds ==
  SameSourceTwice => call.ret = OK

(* ---------------- C20: the root of a source is excluded ---------------- *)

\* The call that has returned was given two sources: a directory that the
\* configuration does not exclude, and a path that it does exclude.
SourceRootExcluded ==
  /\ call.pc = "idle"
  /\ Len(call.sources) = 2
  /\ \E i, j \in 1..2 :
       /\ exclude_path(call.sources[i].src, call.config)
       /\ ~exclude_path(call.sources[j].src, call.config)
       /\ Disk[call.sources[j].src].mode = "dir"

\* C20: a call whose configuration excludes the path of one of its sources
\* fails (with INVALID_CAPTURE_CONFIG) and adds no image, whatever the
\* target path of that source.
C20_ExcludedSourceRejected ==
  SourceRootExcluded =>
    /\ call.ret # OK
    /\ Len(image_metadata) = call.before.image_count

(* -------------------- the capture configuration ------------------------ *)

\* How many lines a capture configuration text has at most, and which
\* allocation of init_capture_config may fail (0: none).
MaxConfigLines == 4
MaxConfigFaults == 2

\* Characters are one-letter strings and C strings are sequences of them.
LF == "\n"
CR == "\r"
BACKSLASH == "\\"

LowerOf ==
  [A |-> "a", B |-> "b", C |-> "c", D |-> "d", E |-> "e", F |-> "f", G
     |-> "g", H |-> "h", I |-> "i", J |-> "j", K |-> "k", L |-> "l", M |->
     "m", N |-> "n", O |-> "o", P |-> "p", Q |-> "q", R |-> "r", S |-> "s",
     T |-> "t", U |-> "u", V |-> "v", W |-> "w", X |-> "x", Y |-> "y", Z
     |-> "z"]

isalpha(c) == \E u \in DOMAIN LowerOf : c = u \/ c = LowerOf[u]

tolower(c) == IF c \in DOMAIN LowerOf THEN LowerOf[c] ELSE c

\* The four section headers init_capture_config compares lines with.
ExclusionListHeader ==
  <<"[", "E", "x", "c", "l", "u", "s", "i", "o", "n", "L", "i", "s", "t",
      "]">>
ExclusionExceptionHeader ==
  <<"[", "E", "x", "c", "l", "u", "s", "i", "o", "n", "E", "x", "c", "e",
      "p", "t", "i", "o", "n", "]">>
CompressionExclusionListHeader ==
  <<"[", "C", "o", "m", "p", "r", "e", "s", "s", "i", "o", "n", "E", "x",
      "c", "l", "u", "s", "i", "o", "n", "L", "i", "s", "t", "]">>
AlignmentListHeader ==
  <<"[", "A", "l", "i", "g", "n", "m", "e", "n", "t", "L", "i", "s", "t",
      "]">>

\* The lines configuration texts are written from: the four headers, a
\* header of no known section, a file-name pattern, a pattern rooted at the
\* capture source, a pattern relative to it, a pattern written the Windows
\* way, and the empty line.
ConfigLines ==
  << ExclusionListHeader,
     ExclusionExceptionHeader,
     CompressionExclusionListHeader,
     AlignmentListHeader,
     <<"[", "F", "o", "o", "]">>,
     <<"*", ".", "l", "o", "g">>,
     <<"/", "k", "e", "e", "p", ".", "l", "o", "g">>,
     <<"d", "/", "*", ".", "l", "o", "g">>,
     <<"C", ":", BACKSLASH, "k", "e", "e", "p", ".", "l", "o", "g">>,
     <<>> >>

RECURSIVE JoinLines(_, _, _)
\* The text made of the given lines, each ended by LF or by CR LF; the last
\* line is left without its end when terminated is FALSE.
JoinLines(ls, crlf, terminated) ==
  IF ls = <<>> THEN <<>>
  ELSE LET eol == IF Len(ls) = 1 /\ ~terminated THEN <<>>
                  ELSE IF crlf THEN <<CR, LF>> ELSE <<LF>>
       IN ConfigLines[Head(ls)] \o eol \o JoinLines(Tail(ls), crlf, terminated)

\* memchr: the position of the first c in s, 0 when there is none.
memchr(s, c) ==
  IF \E i \in 1..Len(s) : s[i] = c
  THEN CHOOSE i \in 1..Len(s) : s[i] = c /\ \A j \in 1..(i - 1) : s[j] # c
  ELSE 0

\* strrchr(p, c) # NULL
strrchr(p, c) == \E i \in 1..Len(p) : p[i] = c

destroy_capture_config(config) == ZeroConfig

\* pattern_list_add_pattern: grows the array by eight slots when it is full,
\* which fails when REALLOC does (alloc_ok is FALSE), and stores the pattern.
pattern_list_add_pattern(list, pattern, alloc_ok) ==
  IF Len(list.pats) >= list.num_allocated_pats
  THEN IF ~alloc_ok
       THEN [ret |-> ERR_NOMEM, list |-> list, allocated |-> 1]
       ELSE [ret |-> OK, allocated |-> 1,
             list |-> [pats |-> Append(list.pats, pattern),
                       num_allocated_pats |-> list.num_allocated_pats + 8]]
  ELSE [ret |-> OK, allocated |-> 0,
        list |-> [list EXCEPT !.pats = Append(list.pats, pattern)]]

\* The line between p and eol once a CR before the LF is cut off, every
\* backslash is made a slash, and a drive letter is skipped.
NormalizeLine(raw) ==
  LET cut == IF raw[Len(raw)] = CR THEN SubSeq(raw, 1, Len(raw) - 1) ELSE raw
      slashed == [i \in 1..Len(cut) |->
                    IF cut[i] = BACKSLASH THEN "/" ELSE cut[i]]
  IN IF Len(slashed) > 2 /\ isalpha(slashed[1]) /\ slashed[2] = ":"
     THEN SubSeq(slashed, 3, Len(slashed))
     ELSE slashed

\* A header of no known section taken for one more pattern.
ParseLine_HeaderAsPattern(p, st, nomem) ==
  LET add(field) ==
        LET r == pattern_list_add_pattern(st.config[field], p,
                                          st.allocs + 1 # nomem)
        IN [ret |-> r.ret, type |-> st.type,
            config |-> [st.config EXCEPT ![field] = r.list],
            allocs |-> st.allocs + r.allocated]
  IN IF p = ExclusionListHeader
       THEN [st EXCEPT !.ret = OK, !.type = "EXCLUSION_LIST"]
     ELSE IF p = ExclusionExceptionHeader
       THEN [st EXCEPT !.ret = OK, !.type = "EXCLUSION_EXCEPTION"]
     ELSE IF p = CompressionExclusionListHeader
       THEN [st EXCEPT !.ret = OK, !.type = "COMPRESSION_EXCLUSION_LIST"]
     ELSE IF p = AlignmentListHeader
       THEN [st EXCEPT !.ret = OK, !.type = "ALIGNMENT_LIST"]
     ELSE IF st.type = "EXCLUSION_LIST" THEN add("exclusion_list")
     ELSE IF st.type = "EXCLUSION_EXCEPTION" THEN add("exclusion_exception")
     ELSE IF st.type = "COMPRESSION_EXCLUSION_LIST"
       THEN add("compression_exclusion_list")
     ELSE IF st.type = "ALIGNMENT_LIST" THEN add("alignment_list")
     ELSE [st EXCEPT !.ret = ERR_INVALID_CAPTURE_CONFIG]

\* What one line does to the parse: a known header selects the section, an
\* unknown one is an error, anything else joins the list of the section
\* selected, or is an error when none is.
ParseLine(p, st, nomem) ==
  LET add(field) ==
        LET r == pattern_list_add_pattern(st.config[field], p,
                                          st.allocs + 1 # nomem)
        IN [ret |-> r.ret, type |-> st.type,
            config |-> [st.config EXCEPT ![field] = r.list],
            allocs |-> st.allocs + r.allocated]
  IN IF p = ExclusionListHeader
       THEN [st EXCEPT !.ret = OK, !.type = "EXCLUSION_LIST"]
     ELSE IF p = ExclusionExceptionHeader
       THEN [st EXCEPT !.ret = OK, !.type = "EXCLUSION_EXCEPTION"]
     ELSE IF p = CompressionExclusionListHeader
       THEN [st EXCEPT !.ret = OK, !.type = "COMPRESSION_EXCLUSION_LIST"]
     ELSE IF p = AlignmentListHeader
       THEN [st EXCEPT !.ret = OK, !.type = "ALIGNMENT_LIST"]
     ELSE IF p # <<>> /\ p[1] = "[" /\ strrchr(p, "]")
       THEN [st EXCEPT !.ret = ERR_INVALID_CAPTURE_CONFIG]
     ELSE IF st.type = "EXCLUSION_LIST" THEN add("exclusion_list")
     ELSE IF st.type = "EXCLUSION_EXCEPTION" THEN add("exclusion_exception")
     ELSE IF st.type = "COMPRESSION_EXCLUSION_LIST"
       THEN add("compression_exclusion_list")
     ELSE IF st.type = "ALIGNMENT_LIST" THEN add("alignment_list")
     ELSE [st EXCEPT !.ret = ERR_INVALID_CAPTURE_CONFIG]

RECURSIVE ParseLoop(_, _, _)
\* while (bytes_remaining): one line at a time, up to its LF.  A line that
\* is empty (eol == p) is skipped before the CR is looked for.
ParseLoop(bytes, st, nomem) ==
  IF bytes = <<>> THEN [ret |-> OK, config |-> st.config]
  ELSE LET eol == memchr(bytes, LF)
       IN IF eol = 0
          THEN [ret |-> ERR_INVALID_CAPTURE_CONFIG,
                config |-> destroy_capture_config(st.config)]
          ELSE LET rest == SubSeq(bytes, eol + 1, Len(bytes))
               IN IF eol = 1 THEN ParseLoop(rest, st, nomem)
                  ELSE LET p == NormalizeLine(SubSeq(bytes, 1, eol - 1))
                           after == ParseLine(p, st, nomem)
                       IN IF after.ret # OK
                          THEN [ret |-> after.ret,
                                config |->
                                  destroy_capture_config(after.config)]
                          ELSE ParseLoop(rest, after, nomem)

\* init_capture_config(config, config_str, config_len): the config filled in
\* and 0, or the config zeroed and an error.  nomem is the allocation that
\* fails: 1 is the MALLOC of the copy, 2 the first REALLOC of a list, ...
init_capture_config(config_str, nomem) ==
  IF nomem = 1 THEN [ret |-> ERR_NOMEM, config |-> ZeroConfig]
  ELSE ParseLoop(config_str,
                 [ret |-> OK, type |-> "NONE", config |-> ZeroConfig,
                  allocs |-> 1],
                 nomem)

\* capture_config_set_prefix
capture_config_set_prefix(config, prefix) == [config EXCEPT !.prefix = prefix]

\* path_basename: what follows the last slash.
path_basename(path) ==
  LET slashes == {i \in 1..Len(path) : path[i] = "/"}
  IN IF slashes = {} THEN path
     ELSE SubSeq(path, (CHOOSE i \in slashes : \A j \in slashes : j <= i) + 1,
                 Len(path))

RECURSIVE fnmatch(_, _)
\* fnmatch(pat, string, FNM_PATHNAME | FNM_CASEFOLD) == 0, for patterns of
\* ordinary characters, ? and *: a slash of the string is matched by a slash
\* of the pattern only, and letters are compared without regard to case.
fnmatch(pat, string) ==
  IF pat = <<>> THEN string = <<>>
  ELSE IF Head(pat) = "*"
    THEN \/ fnmatch(Tail(pat), string)
         \/ /\ string # <<>>
            /\ Head(string) # "/"
            /\ fnmatch(pat, Tail(string))
  ELSE IF Head(pat) = "?"
    THEN string # <<>> /\ Head(string) # "/"
         /\ fnmatch(Tail(pat), Tail(string))
  ELSE string # <<>> /\ tolower(Head(pat)) = tolower(Head(string))
       /\ fnmatch(Tail(pat), Tail(string))

\* Every pattern matched against the whole path.
match_pattern_WholePath(path, basename, list) ==
  \E i \in 1..Len(list.pats) : fnmatch(list.pats[i], path)

\* match_pattern: some pattern of the list matches; a pattern that begins
\* with a slash is matched against path, one that has a slash elsewhere
\* against path + 1, any other against the basename.
match_pattern(path, basename, list) ==
  \E i \in 1..Len(list.pats) :
    LET pat == list.pats[i]
        string == IF pat # <<>> /\ pat[1] = "/" THEN path
                  ELSE IF memchr(pat, "/") # 0 THEN Tail(path)
                  ELSE basename
    IN fnmatch(pat, string)

\* The exclusion exceptions left out of account.
exclude_path_NoException(path, config, exclude_prefix) ==
  match_pattern(path, path_basename(path), config.exclusion_list)

\* exclude_path(path, config, exclude_prefix)
exclude_path_config(path, config, exclude_prefix) ==
  LET prefix_len == Len(config.prefix)
      stripped == IF /\ exclude_prefix
                     /\ SubSeq(path, 1, prefix_len) = config.prefix
                     /\ Len(path) > prefix_len
                     /\ path[prefix_len + 1] = "/"
                  THEN SubSeq(path, prefix_len + 1, Len(path))
                  ELSE path
      basename == path_basename(path)
  IN /\ match_pattern(stripped, basename, config.exclusion_list)
     /\ ~match_pattern(stripped, basename, config.exclusion_exception)

\* The directories captured and the paths asked about.
Prefixes ==
  << <<"/", "s", "r", "c">>,
     <<"/", "s", "r", "c", "/", "d">> >>

Paths ==
  << <<"/", "s", "r", "c", "/", "o", "t", "h", "e", "r", ".", "l", "o", "g">>,
     <<"/", "s", "r", "c", "/", "k", "e", "e", "p", ".", "l", "o", "g">>,
     <<"/", "s", "r", "c">>,
     <<"/", "s", "r", "c", "/", "d", "/", "a", ".", "l", "o", "g">>,
     <<"/", "s", "r", "c", "x", "/", "k", "e", "e", "p", ".", "l", "o", "g">>,
     <<"/", "s", "r", "c", "/", "d", "/", "k", "e", "e", "p", ".", "l", "o",
      "g">>,
     <<"/", "s", "r", "c", "/", "K", "E", "E", "P", ".", "L", "O", "G">> >>

\* A configuration text of at most MaxConfigLines lines is handed to
\* init_capture_config, and one of its allocations may be made to fail.
InitConfig ==
  /\ \E n \in 0..MaxConfigLines :
     \E ls \in [1..n -> 1..Len(ConfigLines)] :
     \E crlf \in BOOLEAN :
     \E terminated \in BOOLEAN :
     \E nomem \in 0..MaxConfigFaults :
       config_in = [str |-> JoinLines(ls, crlf, terminated), nomem |-> nomem]
  /\ capture_config = ZeroConfig
  /\ config_pc = "start"
  /\ config_ret = OK
  /\ query = NoQuery
  /\ reparse_point = NoReparsePoint
  /\ EmptyWim /\ cfaults = 0 /\ work = 0 /\ win32 = FALSE
  /\ NoProgress
  /\ img = MkImage(0, <<>>, {}, {}, {}, FALSE, 0, FALSE, <<"none">>)
  /\ phase = "done"
  /\ todo = <<>>
  /\ stack = <<>>
  /\ extracted_file = [d \in {0} |-> NoPath]
  /\ vol = [d \in {0} |-> 0]
  /\ log = <<>>
  /\ ret = OK
  /\ faults = 0

\* wimlib_add_image_multisource parses the configuration first.
InitCaptureConfig ==
  /\ config_pc = "start"
  /\ LET r == init_capture_config(config_in.str, config_in.nomem)
     IN /\ capture_config' = r.config
        /\ config_ret' = r.ret
        /\ config_pc' = IF r.ret = OK THEN "parsed" ELSE "failed"
  /\ UNCHANGED <<config_in, query>>
  /\ UNCHANGED <<applyVars, captureVars, reparseVars>>

\* Before a source is scanned its path is made the prefix of the config.
CaptureConfigSetPrefix ==
  /\ config_pc = "parsed"
  /\ \E i \in 1..Len(Prefixes) :
     \E strdup_ok \in BOOLEAN :
       IF strdup_ok
       THEN /\ capture_config' =
                 capture_config_set_prefix(capture_config, Prefixes[i])
            /\ config_pc' = "prefixed"
            /\ UNCHANGED config_ret
       ELSE /\ config_pc' = "no prefix"
            /\ config_ret' = ERR_NOMEM
            /\ UNCHANGED capture_config
  /\ UNCHANGED <<config_in, query>>
  /\ UNCHANGED <<applyVars, captureVars, reparseVars>>

\* build_dentry_tree asks whether a path is excluded.  wimlib_assert: the
\* path is at least as long as the prefix when the prefix is to be stripped.
ExcludePath ==
  /\ config_pc = "prefixed"
  /\ \E i \in 1..Len(Paths) :
     \E exclude_prefix \in BOOLEAN :
       /\ exclude_prefix => Len(Paths[i]) >= Len(capture_config.prefix)
       /\ query' = [path |-> Paths[i], exclude_prefix |-> exclude_prefix,
                    result |-> exclude_path_config(Paths[i], capture_config,
                                                   exclude_prefix)]
  /\ config_pc' = "queried"
  /\ UNCHANGED <<config_in, capture_config, config_ret>>
  /\ UNCHANGED <<applyVars, captureVars, reparseVars>>

NextConfig ==
  \/ InitCaptureConfig
  \/ CaptureConfigSetPrefix
  \/ ExcludePath

SpecConfig == InitConfig /\ [][NextConfig]_vars

(* ----------------- C21: which paths a config excludes ------------------ *)

Range(f) == {f[i] : i \in DOMAIN f}

\* The path as the claim has it matched: without the prefix when the prefix
\* is to be stripped and the path begins with the prefix followed by a slash.
StrippedPath(q, prefix) ==
  IF /\ q.exclude_prefix
     /\ Len(q.path) > Len(prefix)
     /\ \A i \in 1..Len(prefix) : q.path[i] = prefix[i]
     /\ q.path[Len(prefix) + 1] = "/"
  THEN [i \in 1..(Len(q.path) - Len(prefix)) |-> q.path[Len(prefix) + i]]
  ELSE q.path

\* What the claim has a pattern matched against.
MatchedAgainst(pat, q, prefix) ==
  LET whole == StrippedPath(q, prefix)
  IN IF pat # <<>> /\ Head(pat) = "/" THEN whole
     ELSE IF "/" \in Range(pat)
       THEN IF whole # <<>> /\ Head(whole) = "/" THEN Tail(whole) ELSE whole
     ELSE path_basename(q.path)

MatchesSome(list, q, prefix) ==
  \E pat \in Range(list.pats) : fnmatch(pat, MatchedAgainst(pat, q, prefix))

\* The configuration of the claim's example: *.log excluded, /keep.log an
\* exception, the prefix /src.
IsExampleConfig ==
  /\ capture_config.exclusion_list.pats = <<ConfigLines[6]>>
  /\ capture_config.exclusion_exception.pats = <<ConfigLines[7]>>
  /\ capture_config.prefix = Prefixes[1]

\* C21: exclude_path returns true exactly when the path matches some pattern
\* of the exclusion list and no pattern of the exclusion-exception list,
\* where the prefix is stripped only from a path that begins with the prefix
\* followed by a slash, a pattern that starts with a slash is matched against
\* the whole stripped path, a pattern with a slash elsewhere against the path
\* relative to the capture root, and any other pattern against the basename.
\* With *.log excluded, /keep.log an exception and the prefix /src,
\* /src/other.log is excluded and /src/keep.log is not.
C21_ExcludeContract ==
  config_pc = "queried" =>
    /\ query.result <=>
         /\ MatchesSome(capture_config.exclusion_list, query,
                        capture_config.prefix)
         /\ ~MatchesSome(capture_config.exclusion_exception, query,
                         capture_config.prefix)
    /\ IsExampleConfig /\ query.exclude_prefix /\ query.path = Paths[1]
         => query.result
    /\ IsExampleConfig /\ query.exclude_prefix /\ query.path = Paths[2]
         => ~query.result

\* The example of the claim was asked about /src/keep.log, which the
\* exclusion list matches and the exception saves.
C21_Witness ==
  /\ config_pc = "queried"
  /\ IsExampleConfig
  /\ query.exclude_prefix
  /\ query.path = Paths[2]
  /\ ~query.result

(* ------------------ C22: configs that do not parse --------------------- *)

RECURSIVE TextLines(_)
\* The lines of a text: what stands between the line ends, a CR before the
\* LF not counted, and what follows the last LF when that is not empty.
TextLines(text) ==
  IF text = <<>> THEN <<>>
  ELSE LET eol == memchr(text, LF)
           line == IF eol = 0 THEN text ELSE SubSeq(text, 1, eol - 1)
           cut == IF line # <<>> /\ line[Len(line)] = CR
                  THEN SubSeq(line, 1, Len(line) - 1) ELSE line
       IN <<cut>> \o (IF eol = 0 THEN <<>>
                      ELSE TextLines(SubSeq(text, eol + 1, Len(text))))

KnownHeaders ==
  {ExclusionListHeader, ExclusionExceptionHeader,
   CompressionExclusionListHeader, AlignmentListHeader}

IsBracketed(line) ==
  line # <<>> /\ line[1] = "[" /\ line[Len(line)] = "]"

\* The text has a bracketed header of no known section.
HasUnknownSection(text) ==
  \E line \in Range(TextLines(text)) :
    IsBracketed(line) /\ line \notin KnownHeaders

\* The text has a line that is neither empty nor a header before its first
\* section header.
HasLineBeforeSection(text) ==
  LET ls == TextLines(text)
  IN \E i \in 1..Len(ls) :
       /\ ls[i] # <<>>
       /\ ~IsBracketed(ls[i])
       /\ \A j \in 1..(i - 1) : ~IsBracketed(ls[j])

NoPatternRetained(config) ==
  /\ config.exclusion_list.pats = <<>>
  /\ config.exclusion_exception.pats = <<>>
  /\ config.compression_exclusion_list.pats = <<>>
  /\ config.alignment_list.pats = <<>>

\* C22: parsing a capture config that has a bracketed section header other
\* than the four known ones, or a non-empty non-header line before the first
\* section header, fails, and with InvalidCaptureConfig unless an allocation
\* failed first; after a failed parse no pattern list of the config retains
\* any pattern.
C22_InvalidConfigRejected ==
  config_pc \in {"parsed", "failed"} =>
    /\ HasUnknownSection(config_in.str) \/ HasLineBeforeSection(config_in.str)
         => /\ config_pc = "failed"
            /\ config_ret \in {ERR_INVALID_CAPTURE_CONFIG, ERR_NOMEM}
            /\ config_in.nomem = 0 => config_ret = ERR_INVALID_CAPTURE_CONFIG
    /\ config_pc = "failed" => NoPatternRetained(capture_config)

\* [ExclusionList], *.log and then [Foo]: the parse failed on the third line
\* with a pattern already in the exclusion list.
C22_Witness ==
  /\ config_pc = "failed"
  /\ config_ret = ERR_INVALID_CAPTURE_CONFIG
  /\ config_in = [str |-> JoinLines(<<1, 6, 5>>, FALSE, TRUE), nomem |-> 0]
  /\ HasUnknownSection(config_in.str)
  /\ NoPatternRetained(capture_config)

(* --------------------- C23: CR LF line endings ------------------------- *)

\* Every line of the text ends with CR LF.
IsCrlfText(text) ==
  /\ text # <<>>
  /\ text[Len(text)] = LF
  /\ \A i \in 1..Len(text) : text[i] = LF => i > 1 /\ text[i - 1] = CR

RECURSIVE WithLfEndings(_)
\* The same text with LF line endings: every CR before an LF left out.
WithLfEndings(text) ==
  IF text = <<>> THEN <<>>
  ELSE IF Len(text) >= 2 /\ text[1] = CR /\ text[2] = LF
    THEN WithLfEndings(Tail(text))
  ELSE <<Head(text)>> \o WithLfEndings(Tail(text))

PatternLists(config) ==
  <<config.exclusion_list.pats, config.exclusion_exception.pats,
    config.compression_exclusion_list.pats, config.alignment_list.pats>>

\* C23: a capture config written with CR LF line endings parses to exactly
\* the same result, the same four pattern lists in the same order or the
\* same error, as the same text with LF line endings, blank lines included.
C23_CrlfParsesAsLf ==
  /\ config_pc \in {"parsed", "failed"}
  /\ config_in.nomem = 0
  /\ IsCrlfText(config_in.str)
  => LET lf == init_capture_config(WithLfEndings(config_in.str), 0)
     IN /\ config_ret = lf.ret
        /\ PatternLists(capture_config) = PatternLists(lf.config)

(* ------------------ C24: what a successful call adds ------------------- *)

\* A wimlib_add_image_multisource call returns in this step.
CallReturns == call'.pc = "idle" /\ (call.pc # "idle" \/ work' # work)

\* The metadata entries w->lookup_table holds.
MetadataEntries(imds) ==
  {imds[k].metadata_lte : k \in {j \in 1..Len(imds) :
                                   imds[j].metadata_lte.inserted}}

C24_Step ==
  (CallReturns /\ call'.ret = OK) =>
    /\ Len(image_metadata') = Len(image_metadata) + 1
    /\ SubSeq(image_metadata', 1, Len(image_metadata)) = image_metadata
    /\ LET new == image_metadata'[Len(image_metadata')]
       IN /\ new.modified = 1
          /\ \A k \in 1..Len(image_metadata) :
               /\ image_metadata[k].security_data # new.security_data
               /\ image_metadata[k].metadata_lte # new.metadata_lte
          /\ "METADATA" \in new.metadata_lte.flags
          /\ new.metadata_lte \in MetadataEntries(image_metadata')

\* C24: a successful wimlib_add_image_multisource call appends exactly one
\* descriptor at the end of the array of image metadata, with the modified
\* flag set, security data allocated for it, and a lookup table entry flagged
\* as metadata and inserted in the lookup table; the root, the security data
\* and the metadata entry of every descriptor there was stay as they were,
\* in the same order.
C24_SuccessAppendsOneImage == [][C24_Step]_vars

(* ------------------ C25: the scope of hard links ----------------------- *)

RECURSIVE Under(_, _)
\* File n is the file at path s, which stat() follows, or lies below it.
Under(n, s) ==
  \/ n = s
  \/ n = Deref(s)
  \/ n # 0 /\ Disk[n].parent # 0 /\ Under(Disk[n].parent, s)

\* Dentries a and b were captured from files that no single source of the
\* call holds.
FromDifferentSources(a, b, sources) ==
  /\ dentries[a].node # 0 /\ dentries[b].node # 0
  /\ ~\E i \in 1..Len(sources) :
        /\ Under(dentries[a].node, sources[i].src)
        /\ Under(dentries[b].node, sources[i].src)

\* C25: hard links are detected within one capture source only: two dentries
\* captured from different sources of one wimlib_add_image_multisource call
\* are never in the same hard-link group, even when their inode identifiers
\* are equal; within one source, dentries with equal identifiers are grouped.
C25_LinksWithinOneSource ==
  (call.pc = "idle" /\ call.ret = OK /\ Len(image_metadata) > 0) =>
    LET image == image_metadata[Len(image_metadata)]
    IN /\ \A group \in image.inode_list :
          \A a, b \in group :
            a # b => ~FromDifferentSources(a, b, call.sources)
       /\ \A a, b \in TreeOf(dentries, image.root_dentry) :
            (/\ image.root_dentry # 0
             /\ ~FromDifferentSources(a, b, call.sources)
             /\ i_ino(dentries, a) # 0
             /\ i_ino(dentries, a) = i_ino(dentries, b))
            => \E group \in image.inode_list : {a, b} \subseteq group

(* --------------------- C26: capture, then apply ------------------------ *)

RECURSIVE DiskPath(_, _)
\* The names that lead from directory s down to file n.
DiskPath(n, s) ==
  IF n = s THEN <<>> ELSE Append(DiskPath(Disk[n].parent, s), Disk[n].name)

\* The source tree T at directory s, as what can be observed of it: the path
\* of every file below s, its kind, and the digest of its content (0 for a
\* directory and for a file without bytes).
SourceTree(s) ==
  {[path |-> DiskPath(n, s), kind |-> Disk[n].mode,
    digest |-> IF Disk[n].size = 0 THEN 0 ELSE Disk[n].content] :
     n \in {m \in DiskNodes : Under(m, s)}}

RECURSIVE DentryPath(_, _, _)
\* The names that lead from the root of an image down to dentry d.
DentryPath(h, d, root) ==
  IF d = root THEN <<>>
  ELSE Append(DentryPath(h, h[d].parent, root), h[d].file_name)

\* What applying the image with root dentry root leaves on an empty target:
\* do_wim_apply_dentry_ntfs makes one file for each dentry of the tree, a
\* directory for a directory inode, a reparse point for a reparse inode, a
\* plain file otherwise, with the stream the inode names (a stream of size
\* 0 leaves a file without bytes, as no stream does).
AppliedTree(h, t, root) ==
  {[path |-> DentryPath(h, d, root),
    kind |-> IF "REPARSE_POINT" \in h[d].attributes THEN "lnk"
             ELSE IF "DIRECTORY" \in h[d].attributes THEN "dir"
             ELSE "reg",
    digest |-> LET lte == __lookup_resource(t, h[d].lte)
               IN IF lte # 0 /\ t[lte].size = 0 THEN 0 ELSE h[d].lte] :
     d \in TreeOf(h, root)}

\* The call captured the one directory it was given as the root of the image,
\* with nothing excluded and nothing failing.
CapturedOneTree ==
  /\ call.pc = "idle" /\ call.ret = OK
  /\ Len(call.sources) = 1
  /\ call.sources[1].target = 1
  /\ Disk[call.sources[1].src].mode = "dir"
  /\ call.config = {}
  /\ cfaults = call.before.cfaults
  /\ Len(image_metadata) = call.before.image_count + 1

\* C26: applying the image captured from a source tree T gives T back: the
\* target has the paths of T, and at every path the kind and content digest
\* T has there.
C26_RoundTrip ==
  CapturedOneTree =>
    AppliedTree(dentries, lookup_table,
                image_metadata[Len(image_metadata)].root_dentry)
      = SourceTree(call.sources[1].src)

(* --------------------------- reparse points ---------------------------- *)

\* char reparse_point_buf[16 * 1024], the 8 bytes of the header of a reparse
\* buffer (tag, length, reserved), and the size from which on
\* apply_reparse_data refuses reparse data (0xffff).
ReparsePointBufSize == 16384
ReparseHeaderSize == 8
ReparseSizeLimit == 65535

ReparseTags == {"SYMLINK", "MOUNT_POINT", "DFS"}

\* The sizes of reparse payloads met: around the header, around the buffer
\* of the capture, and around the limit of the apply.
PayloadSizes ==
  {0, 1,
   ReparsePointBufSize - ReparseHeaderSize - 1,
   ReparsePointBufSize - ReparseHeaderSize,
   ReparsePointBufSize - ReparseHeaderSize + 1,
   ReparsePointBufSize - 1, ReparsePointBufSize, ReparsePointBufSize + 1,
   ReparseSizeLimit - ReparseHeaderSize,
   ReparseSizeLimit - 1, ReparseSizeLimit, ReparseSizeLimit + 1,
   ReparseSizeLimit + ReparseHeaderSize}

Payloads == {"p", "q"}

\* No stream entry, and no buffer handed to the target.
NoLte == [present |-> FALSE, payload |-> "", size |-> 0]
NoBuffer ==
  [ReparseTag |-> "", ReparseDataLength |-> 0, Reserved |-> 0,
   payload |-> "", payload_size |-> 0, size |-> 0]

\* put_u16: the low 16 bits.
put_u16(v) == v % (ReparseSizeLimit + 1)

\* DeviceIoControl(hFile, FSCTL_GET_REPARSE_POINT, ..., buf, size, &n, NULL):
\* the reparse buffer of the file, header and payload, when the buffer given
\* is large enough for it and the call does not fail otherwise.
DeviceIoControl(file, nOutBufferSize, ok) ==
  IF ok /\ ReparseHeaderSize + file.payload_size <= nOutBufferSize
  THEN [success |-> TRUE, ReparseTag |-> file.tag, payload |-> file.payload,
        bytesReturned |-> ReparseHeaderSize + file.payload_size]
  ELSE [success |-> FALSE, ReparseTag |-> "", payload |-> "",
        bytesReturned |-> 0]

\* inode_add_ads_with_data(inode, "", data, size, lookup_table): the data
\* becomes the unnamed stream of the inode, unless memory runs out.
inode_add_ads_with_data(inode, data, size, ok) ==
  IF ok
  THEN [ret |-> OK, inode |-> [inode EXCEPT !.lte = [present |-> TRUE,
                                                     payload |-> data,
                                                     size |-> size]]]
  ELSE [ret |-> ERR_NOMEM, inode |-> inode]

\* The whole buffer, header included, stored as the stream.
win32_capture_reparse_point_WithHeader(file, inode, ioctl_ok, alloc_ok) ==
  LET r == DeviceIoControl(file, ReparsePointBufSize, ioctl_ok)
  IN IF ~r.success THEN [ret |-> ERR_READ, inode |-> inode]
     ELSE inode_add_ads_with_data(
            [inode EXCEPT !.reparse_tag = r.ReparseTag],
            r.payload, r.bytesReturned, alloc_ok)

\* win32_capture_reparse_point(path, hFile, inode, lookup_table)
win32_capture_reparse_point(file, inode, ioctl_ok, alloc_ok) ==
  LET r == DeviceIoControl(file, ReparsePointBufSize, ioctl_ok)
  IN IF ~r.success THEN [ret |-> ERR_READ, inode |-> inode]
     ELSE inode_add_ads_with_data(
            [inode EXCEPT !.reparse_tag = r.ReparseTag],
            r.payload, r.bytesReturned - ReparseHeaderSize, alloc_ok)

\* Reparse data of any size written.
apply_reparse_data_AnySize(dentry, read_ok, set_ok) ==
  IF ~dentry.lte.present
  THEN [ret |-> ERR_INVALID_DENTRY, written |-> NoBuffer]
  ELSE IF ~read_ok THEN [ret |-> ERR_READ, written |-> NoBuffer]
  ELSE IF ~set_ok THEN [ret |-> ERR_NTFS_3G, written |-> NoBuffer]
  ELSE [ret |-> OK,
        written |-> [ReparseTag |-> dentry.reparse_tag,
                     ReparseDataLength |-> put_u16(dentry.lte.size),
                     Reserved |-> 0,
                     payload |-> dentry.lte.payload,
                     payload_size |-> dentry.lte.size,
                     size |-> dentry.lte.size + ReparseHeaderSize]]

\* apply_reparse_data(ni, dentry, w): what it returns and the buffer it hands
\* to ntfs_set_ntfs_reparse_data, NoBuffer when it does not get that far or
\* the call fails.
apply_reparse_data(dentry, read_ok, set_ok) ==
  IF ~dentry.lte.present
  THEN [ret |-> ERR_INVALID_DENTRY, written |-> NoBuffer]
  ELSE IF dentry.lte.size >= ReparseSizeLimit
  THEN [ret |-> ERR_INVALID_DENTRY, written |-> NoBuffer]
  ELSE IF ~read_ok THEN [ret |-> ERR_READ, written |-> NoBuffer]
  ELSE IF ~set_ok THEN [ret |-> ERR_NTFS_3G, written |-> NoBuffer]
  ELSE [ret |-> OK,
        written |-> [ReparseTag |-> dentry.reparse_tag,
                     ReparseDataLength |-> put_u16(dentry.lte.size),
                     Reserved |-> 0,
                     payload |-> dentry.lte.payload,
                     payload_size |-> dentry.lte.size,
                     size |-> dentry.lte.size + ReparseHeaderSize]]

\* A new inode: no reparse tag, no stream.
NewInode == [reparse_tag |-> "", lte |-> NoLte]

InitReparse ==
  /\ reparse_point = [NoReparsePoint EXCEPT !.pc = "start"]
  /\ config_in = <<>>
  /\ capture_config = ZeroConfig
  /\ config_pc = "idle"
  /\ config_ret = OK
  /\ query = NoQuery
  /\ EmptyWim /\ cfaults = 0 /\ work = 0 /\ win32 = TRUE
  /\ NoProgress
  /\ img = MkImage(0, <<>>, {}, {}, {}, FALSE, 0, FALSE, <<"none">>)
  /\ phase = "done"
  /\ todo = <<>>
  /\ stack = <<>>
  /\ extracted_file = [d \in {0} |-> NoPath]
  /\ vol = [d \in {0} |-> 0]
  /\ log = <<>>
  /\ ret = OK
  /\ faults = 0

\* build_dentry_tree meets a file with a reparse point (lines 908-912).
Win32CaptureReparsePoint ==
  /\ reparse_point.pc = "start"
  /\ \E tag \in ReparseTags :
     \E payload \in Payloads :
     \E size \in PayloadSizes :
     \E ioctl_ok \in BOOLEAN :
     \E alloc_ok \in BOOLEAN :
       LET file == [tag |-> tag, payload |-> payload, payload_size |-> size]
           r == win32_capture_reparse_point(file, NewInode, ioctl_ok,
                                            alloc_ok)
       IN reparse_point' =
            [pc |-> "captured", file |-> file, dentry |-> r.inode,
             ret |-> r.ret, written |-> NoBuffer,
             ok |-> <<ioctl_ok, alloc_ok>>]
  /\ UNCHANGED <<applyVars, captureVars, configVars>>

\* An image read from a WIM file holds a reparse point, with a stream of any
\* size or without one.
OpenReparseDentry ==
  /\ reparse_point.pc = "start"
  /\ \E tag \in ReparseTags :
     \E lte \in {NoLte} \cup [present : {TRUE}, payload : Payloads,
                            size : PayloadSizes] :
       reparse_point' =
         [pc |-> "opened", file |-> "none",
          dentry |-> [reparse_tag |-> tag, lte |-> lte],
          ret |-> OK, written |-> NoBuffer, ok |-> <<>>]
  /\ UNCHANGED <<applyVars, captureVars, configVars>>

\* do_wim_apply_dentry_ntfs reaches the reparse point (lines 421-425).
ApplyReparsePoint ==
  /\ \/ reparse_point.pc = "opened"
     \/ reparse_point.pc = "captured" /\ reparse_point.ret = OK
  /\ \E read_ok \in BOOLEAN :
     \E set_ok \in BOOLEAN :
       LET r == apply_reparse_data(reparse_point.dentry, read_ok, set_ok)
       IN reparse_point' =
            [reparse_point EXCEPT !.pc = "applied", !.ret = r.ret,
                                  !.written = r.written,
                                  !.ok = <<read_ok, set_ok>>]
  /\ UNCHANGED <<applyVars, captureVars, configVars>>

NextReparse ==
  \/ Win32CaptureReparsePoint
  \/ OpenReparseDentry
  \/ ApplyReparsePoint

SpecReparse == InitReparse /\ [][NextReparse]_vars

(* ------------- C27: the largest reparse buffer captured ---------------- *)

\* A reparse point was captured and neither the ioctl nor the allocation of
\* the stream was made to fail.
CapturedUnhindered ==
  /\ reparse_point.pc = "captured"
  /\ reparse_point.ok = <<TRUE, TRUE>>

\* The tag is on the inode and the payload, without the header, is its
\* unnamed stream.
ReparsePointStored ==
  /\ reparse_point.ret = OK
  /\ reparse_point.dentry.reparse_tag = reparse_point.file.tag
  /\ reparse_point.dentry.lte =
       [present |-> TRUE, payload |-> reparse_point.file.payload,
        size |-> reparse_point.file.payload_size]

\* C27 as stated: during capture a reparse buffer whose payload is exactly
\* 16 KiB is accepted and stored, the tag on the inode and the payload as the
\* unnamed stream with the 8-byte header stripped, and a payload of 16 KiB + 1
\* bytes is rejected with an error.
C27_PayloadOf16KiBAccepted ==
  CapturedUnhindered =>
    /\ reparse_point.file.payload_size = ReparsePointBufSize
         => ReparsePointStored
    /\ reparse_point.file.payload_size = ReparsePointBufSize + 1
         => reparse_point.ret # OK

\* C27, amended: the 16 KiB bound the whole reparse buffer, header included.
\* A buffer of header and payload of at most 16 KiB, so a payload of at most
\* 16 KiB - 8 bytes, is accepted and stored, the tag on the inode and the
\* payload as the unnamed stream with the 8-byte header stripped; a payload
\* of 16 KiB - 7 bytes or more is rejected with ERR_READ and nothing is
\* stored.
C27_BufferOf16KiBAccepted ==
  CapturedUnhindered =>
    IF reparse_point.file.payload_size + ReparseHeaderSize
         <= ReparsePointBufSize
    THEN ReparsePointStored
    ELSE /\ reparse_point.ret = ERR_READ
         /\ reparse_point.dentry = NewInode

\* A reparse point whose buffer fills the 16 KiB exactly was captured.
C27_Witness ==
  /\ CapturedUnhindered
  /\ reparse_point.file.payload_size + ReparseHeaderSize = ReparsePointBufSize
  /\ ReparsePointStored

(* ------------- C28: the reparse buffer apply writes -------------------- *)

\* C28: when apply reaches a reparse point it hands the target a buffer made
\* of the 8-byte header (the reparse tag of the inode, the payload size as a
\* 16-bit length, 16 bits of zero) and exactly the payload of the stream
\* entry; a payload of at most 0xFFFE bytes is accepted, the length never
\* wraps, and a payload of 0xFFFF bytes or more, or a missing stream entry,
\* fails with InvalidDentry and writes no reparse data.
C28_ReparseBufferWritten ==
  reparse_point.pc = "applied" =>
    LET d == reparse_point.dentry
    IN IF ~d.lte.present \/ d.lte.size >= ReparseSizeLimit
       THEN /\ reparse_point.ret = ERR_INVALID_DENTRY
            /\ reparse_point.written = NoBuffer
       ELSE /\ reparse_point.ok = <<TRUE, TRUE>> <=> reparse_point.ret = OK
            /\ reparse_point.ret # OK => reparse_point.written = NoBuffer
            /\ reparse_point.ret = OK =>
                 reparse_point.written =
                   [ReparseTag |-> d.reparse_tag,
                    ReparseDataLength |-> d.lte.size,
                    Reserved |-> 0,
                    payload |-> d.lte.payload,
                    payload_size |-> d.lte.size,
                    size |-> ReparseHeaderSize + d.lte.size]

\* Reparse data of 0xFFFE bytes was written.
C28_Witness ==
  /\ reparse_point.pc = "applied"
  /\ reparse_point.ret = OK
  /\ reparse_point.dentry.lte.size = ReparseSizeLimit - 1
  /\ reparse_point.written.ReparseDataLength = ReparseSizeLimit - 1

(* ---------------------- C29: attach_branch ----------------------------- *)

\* This step is an attach_branch call that succeeds.
AttachSucceeds ==
  /\ call.pc = "attach" /\ call.branch # 0
  /\ call'.pc \in {"source", "finish"}

\* The leading parts c1..ck, k < n, of target path c1..cn.
LeadingParts(path) == {SubSeq(path, 1, k) : k \in 1..(Len(path) - 1)}

\* A filler directory: a directory without stream, without security
\* descriptor and with inode number 0.
IsFiller(h, d) ==
  /\ h[d].attributes = {"DIRECTORY"}
  /\ h[d].lte = 0
  /\ h[d].security_id = -1
  /\ i_ino(h, d) = 0

C29_Step ==
  AttachSucceeds =>
    LET root == call.root_dentry
        now == call'.root_dentry
        branch == call.branch
        path == TargetPaths[call.sources[call.i].target]
        made == (Len(dentries) + 1)..Len(dentries')
        missing == {part \in LeadingParts(path) :
                      root = 0 \/ WalkExisting(dentries, root, part) = 0}
    IN /\ root # 0 =>
            /\ now = root
            /\ \A d \in TreeOf(dentries, root) :
                 /\ d \in TreeOf(dentries', now)
                 /\ DentryPath(dentries', d, now)
                      = DentryPath(dentries, d, root)
       /\ \A d \in made : IsFiller(dentries', d) /\ d \in TreeOf(dentries', now)
       /\ {DentryPath(dentries', d, now) : d \in made \ {now}} = missing
       /\ Cardinality(made \ {now}) = Cardinality(missing)
       /\ now \in made <=> root = 0 /\ path # <<>>
       /\ IF OverlayTarget = 0
          THEN /\ branch \in TreeOf(dentries', now)
               /\ DentryPath(dentries', branch, now) = path
               /\ path = <<>> => now = branch
          ELSE /\ \A c \in ChildrenOf(dentries, branch) :
                    dentries'[c].parent = OverlayTarget
               /\ branch \notin TreeOf(dentries', now)

\* C29: a successful attach_branch(root, branch, c1/.../cn) leaves every
\* dentry that could be reached from the root where it was, makes a filler
\* directory (DIRECTORY attribute, no stream, security id -1, inode number 0)
\* for exactly the leading components c1..c(n-1) that did not exist, and
\* puts the branch at c1/.../cn when nothing of that name is there, or
\* overlays it on what is there; with an empty target path the branch becomes
\* the root when there is none and is overlaid on the root otherwise.
C29_AttachBranch == [][C29_Step]_vars

\* The branch of a source was attached at k/x to an image that had no k: a
\* filler directory k holds it.
C29_Witness ==
  /\ call.pc \in {"source", "finish"}
  /\ call.root_dentry # 0
  /\ \E f, b \in TreeOf(dentries, call.root_dentry) :
       /\ IsFiller(dentries, f)
       /\ dentries[f].file_name = "k"
       /\ dentries[b].parent = f
       /\ dentries[b].node # 0
       /\ DentryPath(dentries, b, call.root_dentry) = <<"k", "x">>

(* --------------- progress messages of a capture: SpecScan -------------- *)

\* The sources of the calls whose progress messages are followed.
MaxScanSources == 1

\* What a caller may pass: no progress function; a progress function
\* without WIMLIB_ADD_IMAGE_FLAG_VERBOSE; a progress function with it.
ProgressModes == {"none", "quiet", "verbose"}

\* A WIM without images and a capture call on it with at most
\* MaxScanSources sources, whatever the caller passes for progress_func and
\* WIMLIB_ADD_IMAGE_FLAG_VERBOSE.
InitScan ==
  /\ EmptyWim
  /\ cfaults \in 0..MaxCaptureFaults
  /\ work = MaxScanSources
  /\ win32 \in BOOLEAN
  /\ progress \in ProgressModes
  /\ events = <<>>
  /\ img = MkImage(0, <<>>, {}, {}, {}, FALSE, 0, FALSE, <<"none">>)
  /\ phase = "done"
  /\ todo = <<>>
  /\ stack = <<>>
  /\ extracted_file = [d \in {0} |-> NoPath]
  /\ vol = [d \in {0} |-> 0]
  /\ log = <<>>
  /\ ret = OK
  /\ faults = 0
  /\ NoConfig

SpecScan == InitScan /\ [][NextCapture]_vars

(* ------------------- C30: an excluded entry is skipped ----------------- *)

\* SCAN_DENTRY for the excluded entry at path s.
ExcludedEvent(s) ==
  [msg |-> "SCAN_DENTRY", cur_path |-> s, excluded |-> TRUE]

\* What progress_func is told of the excluded entry at path s: with
\* installed, whenever a progress function was passed; without, only when
\* WIMLIB_ADD_IMAGE_FLAG_VERBOSE was passed with it.
Said(s, installed) ==
  IF progress = "verbose" \/ (installed /\ progress = "quiet")
  THEN <<ExcludedEvent(s)>> ELSE <<>>

\* The step makes no dentry, leaves the lookup table and the images with
\* their security data alone, has no system call fail, and delivers said.
EntrySkipped(said) ==
  /\ dentries' = dentries
  /\ lookup_table' = lookup_table
  /\ image_metadata' = image_metadata
  /\ cfaults' = cfaults
  /\ events' = events \o said

\* build_dentry_tree is called for an excluded source that is not the root
\* of the image: unless the prefix could not be set before the call, the
\* branch is null and the loop goes on to the end of its turn.
C30_SourceStep(installed) ==
  (/\ call.pc = "source"
   /\ TargetPaths[call.sources[call.i].target] # <<>>
   /\ exclude_path(call.sources[call.i].src, call.config))
  => LET src == call.sources[call.i]
     IN \/ /\ call'.pc = "idle" /\ call'.ret = ERR_NOMEM
           /\ cfaults' = cfaults - 1
        \/ /\ call' = [call EXCEPT !.pc = "attach", !.branch = 0]
           /\ frames' = <<>>
           /\ EntrySkipped(ScanBegin(src) \o Said(src.src, installed))

\* readdir() delivers an entry of the directory being read: the call never
\* fails for an excluded root; an excluded entry is taken off the directory
\* and nothing else changes, no directory is entered; a directory whose
\* entries are all excluded fails only when readdir() does.
C30_ChildStep(installed) ==
  (call.pc = "build" /\ frames[Len(frames)].todo # {})
  => LET top == frames[Len(frames)]
     IN /\ call'.ret # ERR_INVALID_CAPTURE_CONFIG
        /\ (call'.pc = "build" /\ Len(frames') >= Len(frames))
           => \A s \in top.todo \ frames'[Len(frames)].todo :
                exclude_path(s, call.config)
                => /\ frames' = [frames EXCEPT
                                   ![Len(frames)].todo = top.todo \ {s}]
                   /\ call' = call
                   /\ EntrySkipped(Said(s, installed))
        /\ (\A s \in top.todo : exclude_path(s, call.config))
           => \/ call'.pc = "build"
              \/ call'.ret = ERR_READ /\ cfaults' = cfaults - 1

\* C30 as stated: when exclude(path) holds for an entry visited without the
\* ROOT flag, build_dentry_tree returns success with a null dentry, delivers
\* SCAN_DENTRY with excluded = true to the progress function, leaves the
\* lookup table and the security data unchanged, and neither stats the entry
\* nor scans its descendants; the exclusion of a descendant never fails the
\* capture.
C30_ExcludedEntryReported ==
  [][C30_SourceStep(TRUE) /\ C30_ChildStep(TRUE)]_vars

\* C30, amended: when exclude(path) holds for an entry visited without the
\* ROOT flag, build_dentry_tree returns success with a null dentry, leaves
\* the lookup table and the security data unchanged, and neither stats the
\* entry nor scans its descendants; it delivers SCAN_DENTRY with excluded =
\* true exactly when WIMLIB_ADD_IMAGE_FLAG_VERBOSE was passed together with
\* a progress function; the exclusion of a descendant never fails the
\* capture.
C30_ExcludedEntrySkipped ==
  [][C30_SourceStep(FALSE) /\ C30_ChildStep(FALSE)]_vars

\* A verbose capture that met an excluded entry below its source, said so,
\* and added its image.
C30_Witness ==
  /\ progress = "verbose"
  /\ call.pc = "idle" /\ call.ret = OK
  /\ Len(image_metadata) = 1
  /\ Len(call.sources) = 1
  /\ \E i \in 1..Len(events) :
     \E s \in 1..Len(Disk) :
       /\ events[i] = ExcludedEvent(s)
       /\ s # call.sources[1].src

(* -------------- which list a pattern line joins: SpecPatterns ---------- *)

\* The lines of the configuration texts whose patterns are followed.
MaxPatternLines == 3

\* The lines these texts are written from: two headers, a header after a
\* drive letter, a pattern that begins with a bracket expression, a drive
\* letter alone, a pattern written the Windows way, a file-name pattern, and
\* the empty line.
PatternLines ==
  << <<"[", "E", "x", "c", "l", "u", "s", "i", "o", "n", "L", "i", "s",
     "t", "]">>,
     <<"[", "E", "x", "c", "l", "u", "s", "i", "o", "n", "E", "x", "c",
     "e", "p", "t", "i", "o", "n", "]">>,
     <<"C", ":", "[", "E", "x", "c", "l", "u", "s", "i", "o", "n", "E",
     "x", "c", "e", "p", "t", "i", "o", "n", "]">>,
     <<"[", "a", "b", "]", ".", "l", "o", "g">>,
     <<"C", ":">>,
     <<"C", ":", "\\", "d", "\\", "*", ".", "l", "o", "g">>,
     <<"*", ".", "l", "o", "g">>,
     <<>> >>

RECURSIVE JoinPatternLines(_, _, _)
\* The text made of the given lines, each ended by LF or by CR LF; the last
\* line is left without its end when terminated is FALSE.
JoinPatternLines(ls, crlf, terminated) ==
  IF ls = <<>> THEN <<>>
  ELSE LET eol == IF Len(ls) = 1 /\ ~terminated THEN <<>>
                  ELSE IF crlf THEN <<CR, LF>> ELSE <<LF>>
       IN PatternLines[Head(ls)] \o eol
            \o JoinPatternLines(Tail(ls), crlf, terminated)

\* A configuration text of at most MaxPatternLines of these lines is handed
\* to init_capture_config, and one of its allocations may be made to fail.
InitPatterns ==
  /\ \E n \in 0..MaxPatternLines :
     \E ls \in [1..n -> 1..Len(PatternLines)] :
     \E crlf \in BOOLEAN :
     \E terminated \in BOOLEAN :
     \E nomem \in 0..MaxConfigFaults :
       config_in = [str |-> JoinPatternLines(ls, crlf, terminated),
                    nomem |-> nomem]
  /\ capture_config = ZeroConfig
  /\ config_pc = "start"
  /\ config_ret = OK
  /\ query = NoQuery
  /\ reparse_point = NoReparsePoint
  /\ EmptyWim /\ cfaults = 0 /\ work = 0 /\ win32 = FALSE
  /\ NoProgress
  /\ img = MkImage(0, <<>>, {}, {}, {}, FALSE, 0, FALSE, <<"none">>)
  /\ phase = "done"
  /\ todo = <<>>
  /\ stack = <<>>
  /\ extracted_file = [d \in {0} |-> NoPath]
  /\ vol = [d \in {0} |-> 0]
  /\ log = <<>>
  /\ ret = OK
  /\ faults = 0

SpecPatterns == InitPatterns /\ [][NextConfig]_vars

(* ------------- C31: every pattern line joins its section --------------- *)

\* A line as the configuration is to keep it: every backslash a slash, and
\* a leading drive letter with its colon left out.
Normalised(line) ==
  LET slashed == [i \in 1..Len(line) |->
                    IF line[i] = BACKSLASH THEN "/" ELSE line[i]]
  IN IF Len(slashed) >= 2 /\ isalpha(slashed[1]) /\ slashed[2] = ":"
     THEN SubSeq(slashed, 3, Len(slashed))
     ELSE slashed

\* The list a header selects: 1 the exclusion list, 2 the exclusion
\* exceptions, 3 the compression exclusion list, 4 the alignment list.
SectionOf(line) ==
  IF line = ExclusionListHeader THEN 1
  ELSE IF line = ExclusionExceptionHeader THEN 2
  ELSE IF line = CompressionExclusionListHeader THEN 3
  ELSE 4

RECURSIVE PatternsBySection(_, _, _)
\* The four lists the lines of a text make: a header selects the list, an
\* empty line is passed over, any other line joins the list selected.
PatternsBySection(lines, section, lists) ==
  IF lines = <<>> THEN lists
  ELSE LET line == Head(lines)
       IN IF line \in KnownHeaders
          THEN PatternsBySection(Tail(lines), SectionOf(line), lists)
          ELSE IF line = <<>> \/ section = 0
          THEN PatternsBySection(Tail(lines), section, lists)
          ELSE PatternsBySection(Tail(lines), section,
                 [lists EXCEPT
                    ![section] = Append(lists[section], Normalised(line))])

\* Every line of the text has its line end, no line is a bracketed header
\* of an unknown section, and no pattern stands before the first header.
IsSectionedText(text) ==
  /\ text = <<>> \/ text[Len(text)] = LF
  /\ ~HasUnknownSection(text)
  /\ ~HasLineBeforeSection(text)

\* C31: when a config parses successfully, every non-empty line that is not
\* one of the four section headers is added, after backslash-to-slash
\* normalisation and stripping of a leading drive letter, to exactly the
\* list selected by the most recent section header, in file order, and to
\* no other list; and every pattern line inside a section becomes a pattern
\* of that section: a text of headers, empty lines and pattern lines within
\* sections parses when no allocation fails.
C31_PatternsJoinTheirSection ==
  (config_pc \in {"parsed", "failed"} /\ config_in.nomem = 0)
  => /\ config_pc = "parsed"
        => PatternLists(capture_config) =
             PatternsBySection(TextLines(config_in.str), 0,
                               <<<<>>, <<>>, <<>>, <<>>>>)
     /\ IsSectionedText(config_in.str) => config_pc = "parsed"

(* ---------------- C32: handles are released on every path -------------- *)

\* The calls of the log up to position n that hand the engine an inode:
\* ntfs_pathname_to_inode and ntfs_create when they succeed.
InodesOpened(n) ==
  Cardinality({i \in 1..n :
                 /\ log[i].op \in {"pathname_to_inode", "create_dir",
                                   "create_file"}
                 /\ log[i].ok})

\* The inodes the engine let go of up to position n: one for every
\* ntfs_inode_close, and the two that every ntfs_set_ntfs_dos_name closes.
InodesClosed(n) ==
  Cardinality({i \in 1..n : log[i].op = "close"})
  + 2 * Cardinality({i \in 1..n : log[i].op = "set_dos_name"})

Mounted == Cardinality({i \in LogIdx : log[i].op = "mount" /\ log[i].ok})

Unmounted == Cardinality({i \in LogIdx : log[i].op = "umount"})

\* C32: every adapter handle opened by the apply engine is released exactly
\* once on every exit path, success or error: no inode is closed that is
\* not open, when do_wim_apply_image_ntfs has returned every inode opened
\* while applying a dentry has been closed, and the volume was unmounted
\* exactly once if it was mounted.
C32_HandlesReleased ==
  /\ \A n \in LogIdx : InodesClosed(n) <= InodesOpened(n)
  /\ Unmounted <= Mounted
  /\ phase = "done"
     => /\ InodesClosed(Len(log)) = InodesOpened(Len(log))
        /\ Unmounted = Mounted

(* ------------ progress messages of several sources: SpecProgress ------- *)

\* The sources of the calls whose SCAN_BEGIN and SCAN_END are followed.
MaxProgressSources == 2

\* A WIM without images and the capture calls a process makes on it with a
\* progress function, with or without WIMLIB_ADD_IMAGE_FLAG_VERBOSE, in a
\* build for UNIX, with at most MaxProgressSources sources in all.
InitProgress ==
  /\ EmptyWim
  /\ cfaults \in 0..MaxCaptureFaults
  /\ work = MaxProgressSources
  /\ win32 = FALSE
  /\ progress \in ProgressModes \ {"none"}
  /\ events = <<>>
  /\ img = MkImage(0, <<>>, {}, {}, {}, FALSE, 0, FALSE, <<"none">>)
  /\ phase = "done"
  /\ todo = <<>>
  /\ stack = <<>>
  /\ extracted_file = [d \in {0} |-> NoPath]
  /\ vol = [d \in {0} |-> 0]
  /\ log = <<>>
  /\ ret = OK
  /\ faults = 0
  /\ NoConfig

SpecProgress == InitProgress /\ [][NextCapture]_vars

(* ------------------- C33: SCAN_BEGIN and SCAN_END ---------------------- *)

\* The positions in events of the messages of one kind.
MessagesAt(msg) == {j \in 1..Len(events) : events[j].msg = msg}

\* The k-th position of a set of positions.
Kth(S, k) == CHOOSE j \in S : Cardinality({x \in S : x < j}) = k - 1

\* The message is about the source src of the call.
AboutSource(e, src) ==
  e.source = src.src /\ e.wim_target_path = src.target

\* The messages delivered so far: the k-th SCAN_BEGIN is that of the k-th
\* source of the sorted list; SCAN_END k is that of the same source, comes
\* after SCAN_BEGIN k and before SCAN_BEGIN k + 1; every SCAN_DENTRY stands
\* after the SCAN_BEGIN of the source its path lies under and before the
\* SCAN_END of that source.
ScanMessagesPaired ==
  LET begins == MessagesAt("SCAN_BEGIN")
      ends == MessagesAt("SCAN_END")
      nb == Cardinality(begins)
      ne == Cardinality(ends)
  IN /\ nb <= Len(call.sources)
     /\ ne <= nb /\ nb <= ne + 1
     /\ \A k \in 1..nb : AboutSource(events[Kth(begins, k)], call.sources[k])
     /\ \A k \in 1..ne :
          /\ AboutSource(events[Kth(ends, k)], call.sources[k])
          /\ Kth(begins, k) < Kth(ends, k)
          /\ k < nb => Kth(ends, k) < Kth(begins, k + 1)
     /\ \A j \in MessagesAt("SCAN_DENTRY") :
          \E k \in 1..nb :
            /\ Kth(begins, k) < j
            /\ k <= ne => j < Kth(ends, k)
            /\ k < nb => j < Kth(begins, k + 1)
            /\ Under(events[j].cur_path, call.sources[k].src)

\* SCAN_END has been delivered for exactly the sources whose turn of the
\* loop ended without an error: all before the one at work, every one when
\* the loop is over, every one when the call returned 0; after a failure
\* the source that failed has its SCAN_BEGIN and no SCAN_END.
ScanEndsCounted ==
  LET nb == Cardinality(MessagesAt("SCAN_BEGIN"))
      ne == Cardinality(MessagesAt("SCAN_END"))
  IN /\ call.pc = "source" => nb = call.i - 1 /\ ne = call.i - 1
     /\ call.pc \in {"build", "attach"} => nb = call.i /\ ne = call.i - 1
     /\ call.pc \in {"finish", "crashed"}
        => nb = Len(call.sources) /\ ne = Len(call.sources)
     /\ (call.pc = "idle" /\ call.ret = OK)
        => nb = Len(call.sources) /\ ne = Len(call.sources)
     /\ (call.pc = "idle" /\ call.ret # OK)
        => \/ ne = nb - 1
           \/ ne = nb /\ nb \in {0, Len(call.sources)}

\* A step in which the call fails delivers no SCAN_END, and nothing at all
\* when the failure comes after the loop or while a branch is attached; no
\* message is delivered once the call has returned.
C33_Step ==
  /\ (call.pc # "idle" /\ call'.pc = "idle" /\ call'.ret # OK)
     => /\ \A j \in (Len(events) + 1)..Len(events') :
             events'[j].msg # "SCAN_END"
        /\ Len(events') >= Len(events)
        /\ SubSeq(events', 1, Len(events)) = events
        /\ call.pc \in {"attach", "finish"} => events' = events
  /\ (call.pc = "idle" /\ call'.pc = "idle") => events' = <<>>

\* C33: with a progress callback installed, for each capture source in
\* sorted order SCAN_BEGIN{source, target} is delivered before any
\* SCAN_DENTRY of that source, and SCAN_END after its last SCAN_DENTRY
\* exactly when the source was built and, if it gave a branch, attached
\* without an error; the pairs of different sources never nest, and after
\* the first error no further progress message is delivered.
C33_ScanMessagesOrdered ==
  /\ [](progress # "none" => ScanMessagesPaired /\ ScanEndsCounted)
  /\ [][progress # "none" => C33_Step]_vars

\* A verbose capture of two sources that returned 0: two pairs of
\* SCAN_BEGIN and SCAN_END with SCAN_DENTRY messages in each.
C33_Witness ==
  /\ progress = "verbose"
  /\ call.pc = "idle" /\ call.ret = OK
  /\ Len(call.sources) = 2
  /\ Cardinality(MessagesAt("SCAN_END")) = 2
  /\ \E i, j \in MessagesAt("SCAN_DENTRY") :
       /\ i < Kth(MessagesAt("SCAN_END"), 1)
       /\ j > Kth(MessagesAt("SCAN_BEGIN"), 2)

(* --------------------- C34: the kinds of capture errors ---------------- *)

\* The enumerated error kinds a capture may end with.
CaptureErrorKinds ==
  {ERR_NOMEM, ERR_INVALID_CAPTURE_CONFIG, ERR_INVALID_OVERLAY, ERR_STAT,
   ERR_NOTDIR, ERR_SPECIAL_FILE, ERR_OPEN, ERR_READ, ERR_READLINK}

\* C34: every nonzero result of build_dentry_tree, which
\* wimlib_add_image_multisource returns as it is, is one of the enumerated
\* error kinds and names the step that failed: Stat for a failed stat of
\* any entry, NotDir, SpecialFile, Open, Read, ReadLink.
C34_EnumeratedErrorKind ==
  (call.pc = "idle" /\ call.ret # OK) => call.ret \in CaptureErrorKinds

(* --------------------- C35: pass 1 terminates -------------------------- *)

\* C35: pass 1 terminates for every finite dentry tree: the recursion
\* between do_wim_apply_dentry_ntfs and preapply_dentry_with_dos_name has
\* bounded depth for every link group, also when two or more members of one
\* directory have a short name: no dentry is applied while an earlier call
\* for the same dentry is still in progress, and the stack is never
\* exhausted.
C35_RecursionBounded ==
  /\ \A i, j \in 1..Len(stack) : i < j => stack[i].d # stack[j].d
  /\ phase # "crashed"

(* ------------- C36: a dentry is materialised at most once -------------- *)

\* The calls that make the name of dentry d on the target: ntfs_create of a
\* file or a directory, and ntfs_link.
Materialisations(d) ==
  {i \in LogIdx : /\ log[i].op \in {"create_file", "create_dir", "link"}
                  /\ log[i].d = d}

\* C36: in pass 1 each dentry other than the root is materialised on the
\* target at most once: no dentry is the subject of two create-file,
\* create-directory or hard-link operations, also in link groups that span
\* several directories and have a DOS-named member made as a hard link.
C36_MaterialisedOnce ==
  \A d \in Dentries(img) \ {0} : Cardinality(Materialisations(d)) <= 1

(* ------------- C37: the first failure is the one returned -------------- *)

\* The error kind of a failed adapter call or validity check.
KindOf(op) ==
  IF op = "read" THEN ERR_READ
  ELSE IF op = "write" THEN ERR_WRITE
  ELSE IF op \in {"strdup", "utf16_to_utf8"} THEN ERR_NOMEM
  ELSE IF op = "check" THEN ERR_INVALID_DENTRY
  ELSE ERR_NTFS_3G

\* The calls of the log at which an operation failed: a call that failed,
\* and the write of the last chunk of a stream whose content does not hash
\* to the recorded digest, after which the comparison of the digests fails.
Failures ==
  {i \in LogIdx : \/ ~log[i].ok
                  \/ log[i].op = "write" /\ log[i].data = "bad"}

FirstFailure == CHOOSE i \in Failures : \A j \in Failures : i <= j

\* C37: the error kind do_wim_apply_image_ntfs returns is that of the first
\* operation that failed: a failed read of a stream's content is returned
\* as the read error, never as InvalidResourceHash or as success, and a
\* failed close of a handle before the DOS name of a hard link is set is
\* not overwritten by a later successful operation.
C37_FirstErrorReturned ==
  (phase = "done" /\ Failures # {})
  => ret = IF log[FirstFailure].ok THEN ERR_INVALID_RESOURCE_HASH
           ELSE KindOf(log[FirstFailure].op)

(* ---------------- C38: success and the image count --------------------- *)

\* The image count of the WIM grew by one during the call that returns.
ImageAppended ==
  Len(image_metadata') = call'.before.image_count + 1

\* The image count of the WIM is what it was when the call was made.
ImageCountKept ==
  Len(image_metadata') = call'.before.image_count

\* C38: wimlib_add_image_multisource returns 0 if and only if the image
\* count grew by one during the call, and on every return other than 0,
\* whatever failed and whether or not the descriptor had been appended by
\* then, the image count is what it was before the call.
C38_SuccessIffImageAppended ==
  [][CallReturns => /\ (call'.ret = OK <=> ImageAppended)
                    /\ (call'.ret # OK => ImageCountKept)]_vars

(* ------------------- C39: nothing captured is dropped ------------------ *)

\* The call that has returned was the first the process made on the WIM, so
\* that every dentry of the heap was made during it.
FirstCallReturned ==
  /\ call.pc = "idle"
  /\ work + (IF call.sources = <<>> THEN 1 ELSE Len(call.sources)) = MaxSources

\* The dentries build_dentry_tree made for files on disk and that were not
\* freed since.
CapturedDentries ==
  {d \in 1..Len(dentries) : ~dentries[d].freed /\ dentries[d].node # 0}

\* path begins with the components of prefix.
HasPrefix(path, prefix) ==
  /\ Len(prefix) <= Len(path)
  /\ SubSeq(path, 1, Len(prefix)) = prefix

\* Dentry d is in the tree of root, at or below the target path of a source
\* of the call.
ReachableUnderTarget(d, root) ==
  /\ root # 0
  /\ d \in TreeOf(dentries, root)
  /\ \E k \in 1..Len(call.sources) :
       HasPrefix(DentryPath(dentries, d, root),
                 TargetPaths[call.sources[k].target])

\* Dentry d was the root of the branch of a directory whose target path was
\* there already as a directory: do_overlay moved its children over, and the
\* directory at the target path stands for it.
MergedIntoTarget(d, root) ==
  /\ root # 0
  /\ dentries[d].parent = 0
  /\ inode_is_directory(dentries[d].attributes)
  /\ ChildrenOf(dentries, d) = {}
  /\ \E k \in 1..Len(call.sources) :
     \E e \in TreeOf(dentries, root) :
       /\ dentries[d].node \in {call.sources[k].src, Deref(call.sources[k].src)}
       /\ inode_is_directory(dentries[e].attributes)
       /\ DentryPath(dentries, e, root) = TargetPaths[call.sources[k].target]

\* C39: after a successful wimlib_add_image_multisource call every dentry
\* that build_dentry_tree made for a file on disk that was not excluded is
\* reachable from the root of the new image under the target path of its
\* source (the root of a directory branch that was overlaid being
\* represented by the directory it was merged into), also when the branch is
\* a regular file whose target path exists already and when two files of a
\* directory have names that differ only in case.
C39_NothingDropped ==
  (FirstCallReturned /\ call.ret = OK
     /\ Len(image_metadata) = call.before.image_count + 1)
  => LET root == image_metadata[Len(image_metadata)].root_dentry
     IN \A d \in CapturedDentries :
          ReachableUnderTarget(d, root) \/ MergedIntoTarget(d, root)

(* ------------------ C40: what hard links are made of ------------------- *)

\* C40: whenever pass 1 makes a hard link, the dentry being linked and the
\* extracted dentry it is linked to are regular files, neither directories
\* nor reparse points: the assertion at the start of wim_apply_hardlink_ntfs
\* never fails and no link call is issued for anything else, also for a
\* link group of symbolic links.
C40_HardlinksOfRegularFiles ==
  /\ phase # "aborted"
  /\ \A i \in LogIdx :
       log[i].op = "link" =>
         /\ dentry_is_regular_file(img, log[i].d)
         /\ dentry_is_regular_file(img, log[i].arg)

====
